---- MODULE Spec2Model ----
(***************************************************************************)
(* Temporal data integration engine of hawaii-airquality-forecasting.      *)
(*                                                                         *)
(* Part I   - the five ingestion scripts and utils/append_hvo.py, each a   *)
(*            separate process that owns one raw archive (a CSV file).     *)
(* Part II  - DataMerger: the hourly grid and the left joins.              *)
(* Part III - data_cleaner.py and the cleaning run of cli/clean_all.py.    *)
(* Part IV  - runs taken step by step: two processes in append_unique,     *)
(*            the chunk loops of aqs_monthly.py and openmeteo_recent.py.   *)
(*                                                                         *)
(* A CSV file is a record [exists, rows]; rows is the sequence of data     *)
(* rows in file order.  Time is counted in ticks, TicksPerHour ticks to    *)
(* the hour, so that timestamps off the hour boundary exist.               *)
(***************************************************************************)
EXTENDS Integers, Sequences, FiniteSets, TLC

VARIABLES
    script,        \* the ingestion script this behaviour schedules
    airnowRaw,     \* data/raw/airnow/airnow_aqi_all.csv
    aqsRaw,        \* data/raw/aqs/aqs_all.csv
    purpleairRaw,  \* data/raw/purpleair/purpleair_all.csv
    hvoRaw,        \* data/raw/hvo/hvo_status.csv
    openmeteoRaw,  \* data/raw/openmeteo/openmeteo_hilo_hourly.csv
    hvoHistory,    \* data/hvo/hvo_full_history.csv (utils/append_hvo.py)
    clock,         \* wall clock of the HVO pulls, in hours
    last,          \* history: the last run, what it fetched, the archive it met
    interim,       \* data/interim/*_clean.csv, one file per source
    merged,        \* data/processed/merged_all.csv
    idx,           \* the hourly index the last merge run built
    outcome,       \* how the last merge run ended
    runs,          \* how often cli/merge_all.py ran: "none", "once", "twice"
    cleanLog,      \* cli/clean_all.py: what process_dataset printed, in order
    cleanExit,     \* cli/clean_all.py: "idle", "running", or how main ended
    pc,            \* a script run step by step: "idle", "loop", "done"
    window,        \* [start, end]: the dates the run set out to fetch
    current,       \* the loop variable of the chunk loop
    chunks,        \* history: the chunks requested so far, in order
    new_data,      \* openmeteo_recent.py: the frames fetched so far
    writers,       \* two processes inside append_unique: position, batch, df_exist
    schedule       \* history: the steps the two processes took, in order

vars == <<script, airnowRaw, aqsRaw, purpleairRaw, hvoRaw, openmeteoRaw,
          hvoHistory, clock, last, interim, merged, idx, outcome, runs,
          cleanLog, cleanExit, pc, window, current, chunks, new_data,
          writers, schedule>>

ingestVars == <<script, airnowRaw, aqsRaw, purpleairRaw, hvoRaw, openmeteoRaw,
                hvoHistory, clock, last>>

mergeVars == <<interim, merged, idx, outcome, runs>>

cleanVars == <<cleanLog, cleanExit>>

runVars == <<pc, window, current, chunks, new_data, writers, schedule>>

(***************************************************************************)
(* Bounds of the model.                                                    *)
(***************************************************************************)
MaxBatch == 2      \* rows one fetch delivers at most
MaxArchive == 4    \* rows an archive holds at most

(***************************************************************************)
(* Generic helpers: pandas operations on a frame held as a sequence.       *)
(***************************************************************************)
NoFile == [exists |-> FALSE, rows |-> <<>>]

File(rows) == [exists |-> TRUE, rows |-> rows]

Range(s) == {s[i] : i \in DOMAIN s}

SeqsUpTo(S, n) == UNION {[1..k -> S] : k \in 0..n}

\* The subsequence of s at the indices I, in the order of s.
Pick(s, I) ==
    LET F[n \in 0..Len(s)] ==
            IF n = 0 THEN <<>>
            ELSE IF n \in I THEN Append(F[n - 1], s[n]) ELSE F[n - 1]
    IN  F[Len(s)]

\* DataFrame.drop_duplicates(subset=...), keep="first" (the default): a row
\* stays iff no earlier row has the same key.  keys[i] is the key of row i.
FirstOfKey(keys) ==
    {i \in DOMAIN keys : \A j \in 1..(i - 1) : keys[j] # keys[i]}

\* A mutation of drop_duplicates: keep="last".
LastOfKey(keys) ==
    {i \in DOMAIN keys : \A j \in (i + 1)..Len(keys) : keys[j] # keys[i]}

\* The rows drop_duplicates keeps.
KeptRows(keys) == FirstOfKey(keys)

\* DataFrame.sort_values("datetime_utc") on rows with a field t; ties keep
\* their order.
SortValues(s) ==
    LET Rank(i) == Cardinality({j \in DOMAIN s :
                        \/ s[j].t < s[i].t
                        \/ s[j].t = s[i].t /\ j < i}) + 1
    IN  [k \in 1..Len(s) |-> s[CHOOSE i \in DOMAIN s : Rank(i) = k]]


(***************************************************************************)
(* Part I - ingestion.                                                     *)
(***************************************************************************)
Scripts == {"airnow_daily", "aqs_monthly", "purpleair_daily", "hvo",
            "openmeteo_recent", "append_hvo"}

\* ---- ingestion/airnow_daily.py ----
\* One AirNow observation as the API delivers it.
AirnowRecs == [HourObserved : {0, 1}, ParameterName : {"PM2.5"}]

\* _append_day: to_csv(mode="a"); the file is created when it is missing.
append_day(file, rows) ==
    IF rows = <<>> THEN file ELSE File(file.rows \o rows)

\* ---- ingestion/purpleair_daily.py ----
Sensors == <<"s1", "s2">>

PurpleairStamps == {1, 2}

\* The per-sensor loop: each sensor's history, when the request succeeded and
\* holds data, is appended to the archive, in the order of the sensor list.
\* resp[k] is the data returned for Sensors[k] (empty: no data, or the request
\* failed and the loop went on).
purpleair_daily(file, resp) ==
    LET Tagged(k) == [i \in DOMAIN resp[k] |->
                        [sensor_index |-> Sensors[k], time_stamp |-> resp[k][i]]]
        F[k \in 0..Len(Sensors)] ==
            IF k = 0 THEN file
            ELSE IF resp[k] = <<>> THEN F[k - 1]
            ELSE File(F[k - 1].rows \o Tagged(k))
    IN  F[Len(Sensors)]

\* ---- ingestion/hvo.py ----
Notices == {"n1", "n2"}

\* alertLevel, coded: 1 = ADVISORY, 2 = WATCH.
AlertLevels == {1, 2}

\* The status document of one pull.
HvoStatus == [noticeId : Notices, alertLevel : AlertLevels]

\* A mutation of new_notice: the comparison is with the first archived
\* record.
new_notice_vs_first(file, status) ==
    IF file.exists
    THEN IF file.rows = <<>> THEN TRUE
         ELSE status.noticeId # file.rows[1].noticeId
    ELSE TRUE

\* new_notice: the noticeId differs from the last archived record's.
new_notice(file, status) ==
    IF file.exists
    THEN IF file.rows = <<>> THEN TRUE
         ELSE status.noticeId # file.rows[Len(file.rows)].noticeId
    ELSE TRUE

\* One pull: a record stamped with the pull time is appended.
hvo_pull(file, now, status) ==
    File(Append(file.rows,
                [timestamp_utc |-> now,
                 noticeId |-> status.noticeId,
                 alertLevel |-> status.alertLevel,
                 new_notice |-> new_notice(file, status)]))

\* ---- utils/append_hvo.py ----
HvoLatestRows == [noticeId : Notices]

\* append_hvo_data: concat + drop_duplicates() over whole rows; the first
\* archive is the new file as it is.
append_hvo_data(latest, history) ==
    IF ~latest.exists THEN history
    ELSE IF history.exists
         THEN LET comb == history.rows \o latest.rows
              IN  File(Pick(comb, KeptRows(comb)))
         ELSE File(latest.rows)

\* ---- ingestion/aqs_monthly.py ----
\* The dedup key (state_code, county_code, site_number, date_local,
\* time_local, parameter_code), abstracted to one name.
AqsKeys == {"k1", "k2"}

AqsVals == {10, 20}

AqsRecs == [key : AqsKeys, sample_measurement : AqsVals]

AqsKey(r) == r.key

\* A mutation of append_unique: the batch replaces the archive.
append_unique_overwriting(file, rows, sameTypes) ==
    IF rows = <<>> THEN file ELSE File(rows)

\* append_unique(rows).  df_exist comes from read_csv (date_local parsed to
\* datetimes by parse_dates, the codes to integers), df_new from the JSON
\* records of the API; drop_duplicates compares the key cells as objects.
\* sameTypes says whether a fetched key cell compares equal to the parsed
\* cell of the same text; the source does not fix the types the API delivers.
append_unique(file, rows, sameTypes) ==
    IF rows = <<>> THEN file
    ELSE IF file.exists
         THEN LET df_comb == file.rows \o rows
                  keys == [i \in DOMAIN df_comb |->
                             IF i <= Len(file.rows) \/ sameTypes
                             THEN <<AqsKey(df_comb[i]), "parsed">>
                             ELSE <<AqsKey(df_comb[i]), "json">>]
              IN  File(Pick(df_comb, KeptRows(keys)))
         ELSE File(rows)

\* ---- ingestion/openmeteo_recent.py ----
\* The hours of the Open-Meteo time axis.
OmHours == {0, 1, 2}

OmVals == {"era5", "era5t"}

OmRecs == [t : OmHours, temperature_2m : OmVals]

OmKey(r) == r.t

MaxOf(S) == CHOOSE x \in S : \A y \in S : y <= x

MinOf(S) == CHOOSE x \in S : \A y \in S : x <= y

\* A mutation of the last lines of main(): the new rows are appended as
\* they come.
om_concat(existing, new_df) == existing \o new_df

\* concat, drop_duplicates(subset=["datetime_utc"]), sort_values: the rows
\* main() writes.
om_combine(existing, new_df) ==
    LET combined == existing \o new_df
        keys == [i \in DOMAIN combined |-> OmKey(combined[i])]
    IN  SortValues(Pick(combined, KeptRows(keys)))

\* main(): end is utcnow() - 5 days; fetched.ok is FALSE when every chunk
\* failed (new_data stays empty), else fetched.rows is the concatenation of
\* the chunks.
openmeteo_main(file, end, fetched) ==
    IF ~file.exists THEN file
    ELSE IF file.rows = <<>> THEN file      \* last_date is NaT: no chunk is requested
    ELSE LET last_date == MaxOf({file.rows[i].t : i \in DOMAIN file.rows})
             start_date == last_date + 1
         IN  IF start_date >= end THEN file
             ELSE IF ~fetched.ok THEN file
             ELSE File(om_combine(file.rows, fetched.rows))

\* new_df: the chunks in the order they were requested, each ascending in
\* time; the day a chunk ends on is requested again by the next chunk, so a
\* timestamp may come twice.
OmBatches ==
    {s \in SeqsUpTo(OmRecs, MaxBatch) :
        \A i \in 1..(Len(s) - 1) : s[i].t <= s[i + 1].t}

\* The historical file written by pull_openmeteo.py: one row per hour,
\* ascending.
OmHistorical ==
    {s \in SeqsUpTo(OmRecs, Cardinality(OmHours)) :
        /\ s # <<>>
        /\ \A i \in 1..(Len(s) - 1) : s[i].t < s[i + 1].t}


\* ---- the runs ----
\* No run has chosen its dates yet.
NoWindow == [start |-> 0, end |-> 0]

NoRun == [op |-> "none", input |-> <<>>, before |-> NoFile]

\* No interim file is written yet.
NoInterim ==
    [src \in {"aqs", "airnow", "purpleair", "openmeteo", "hvo"} |-> NoFile]

Room(file, n) == Len(file.rows) + n <= MaxArchive

AirnowDaily ==
    /\ script = "airnow_daily"
    /\ \E daily_records \in SeqsUpTo(AirnowRecs, MaxBatch) :
        /\ Room(airnowRaw, Len(daily_records))
        /\ airnowRaw' = append_day(airnowRaw, daily_records)
        /\ last' = [op |-> "airnow_daily", input |-> daily_records,
                    before |-> airnowRaw]
    /\ UNCHANGED mergeVars
    /\ UNCHANGED cleanVars
    /\ UNCHANGED runVars
    /\ UNCHANGED <<script, aqsRaw, purpleairRaw, hvoRaw, openmeteoRaw,
                   hvoHistory, clock>>

PurpleairDaily ==
    /\ script = "purpleair_daily"
    /\ \E resp \in [DOMAIN Sensors -> SeqsUpTo(PurpleairStamps, MaxBatch)] :
        /\ Room(purpleairRaw, Len(resp[1]) + Len(resp[2]))
        /\ purpleairRaw' = purpleair_daily(purpleairRaw, resp)
        /\ last' = [op |-> "purpleair_daily", input |-> resp,
                    before |-> purpleairRaw]
    /\ UNCHANGED mergeVars
    /\ UNCHANGED cleanVars
    /\ UNCHANGED runVars
    /\ UNCHANGED <<script, airnowRaw, aqsRaw, hvoRaw, openmeteoRaw,
                   hvoHistory, clock>>

\* A pull whose request failed raises before anything is written; it is the
\* stuttering step.
HvoPull ==
    /\ script = "hvo"
    /\ Room(hvoRaw, 1)
    /\ \E status \in HvoStatus :
        /\ hvoRaw' = hvo_pull(hvoRaw, clock, status)
        /\ last' = [op |-> "hvo", input |-> [now |-> clock, status |-> status],
                    before |-> hvoRaw]
    /\ clock' = clock + 1
    /\ UNCHANGED mergeVars
    /\ UNCHANGED cleanVars
    /\ UNCHANGED runVars
    /\ UNCHANGED <<script, airnowRaw, aqsRaw, purpleairRaw, openmeteoRaw,
                   hvoHistory>>

AppendHvo ==
    /\ script = "append_hvo"
    /\ \E latest \in {NoFile} \cup {File(r) : r \in SeqsUpTo(HvoLatestRows, MaxBatch)} :
        /\ Room(hvoHistory, Len(latest.rows))
        /\ hvoHistory' = append_hvo_data(latest, hvoHistory)
        /\ last' = [op |-> "append_hvo", input |-> latest,
                    before |-> hvoHistory]
    /\ UNCHANGED mergeVars
    /\ UNCHANGED cleanVars
    /\ UNCHANGED runVars
    /\ UNCHANGED <<script, airnowRaw, aqsRaw, purpleairRaw, hvoRaw,
                   openmeteoRaw, clock>>

\* One call of append_unique from the chunk loop (only non-empty chunks reach
\* it).
AqsAppendUnique ==
    /\ script = "aqs_monthly"
    /\ \E rows \in SeqsUpTo(AqsRecs, MaxBatch), sameTypes \in BOOLEAN :
        /\ rows # <<>>
        /\ Room(aqsRaw, Len(rows))
        /\ aqsRaw' = append_unique(aqsRaw, rows, sameTypes)
        /\ last' = [op |-> "aqs_monthly",
                    input |-> [rows |-> rows, sameTypes |-> sameTypes],
                    before |-> aqsRaw]
    /\ UNCHANGED mergeVars
    /\ UNCHANGED cleanVars
    /\ UNCHANGED runVars
    /\ UNCHANGED <<script, airnowRaw, purpleairRaw, hvoRaw, openmeteoRaw,
                   hvoHistory, clock>>

OpenmeteoRecent ==
    /\ script = "openmeteo_recent"
    /\ \E end \in OmHours \cup {MaxOf(OmHours) + 1}, ok \in BOOLEAN,
          rows \in OmBatches :
        /\ ~ok => rows = <<>>
        /\ Room(openmeteoRaw, Len(rows))
        /\ LET fetched == [ok |-> ok, rows |-> rows]
           IN  /\ openmeteoRaw' = openmeteo_main(openmeteoRaw, end, fetched)
               /\ last' = [op |-> "openmeteo_recent",
                           input |-> [end |-> end, fetched |-> fetched],
                           before |-> openmeteoRaw]
    /\ UNCHANGED mergeVars
    /\ UNCHANGED cleanVars
    /\ UNCHANGED runVars
    /\ UNCHANGED <<script, airnowRaw, aqsRaw, purpleairRaw, hvoRaw,
                   hvoHistory, clock>>

InitIngest ==
    /\ script \in Scripts
    /\ airnowRaw = NoFile
    /\ aqsRaw = NoFile
    /\ purpleairRaw = NoFile
    /\ hvoRaw = NoFile
    /\ hvoHistory = NoFile
    /\ openmeteoRaw \in IF script = "openmeteo_recent"
                        THEN {NoFile} \cup {File(s) : s \in OmHistorical}
                        ELSE {NoFile}
    /\ clock = 0
    /\ last = NoRun
    /\ pc = "idle"
    /\ window = NoWindow
    /\ current = 0
    /\ chunks = <<>>
    /\ new_data = <<>>
    /\ writers = <<>>
    /\ schedule = <<>>
    /\ interim = NoInterim
    /\ merged = NoFile
    /\ idx = <<>>
    /\ outcome = "idle"
    /\ runs = "none"
    /\ cleanLog = <<>>
    /\ cleanExit = "idle"

NextIngest ==
    \/ AirnowDaily
    \/ PurpleairDaily
    \/ HvoPull
    \/ AppendHvo
    \/ AqsAppendUnique
    \/ OpenmeteoRecent


(***************************************************************************)
(* Part II - DataMerger.                                                   *)
(*                                                                         *)
(* A frame in memory is [columns, rows]; a row is a record over the        *)
(* frame's columns.  Only the columns the merge reads or carries are kept: *)
(* datetime_utc, one identity column and one value column per source, and  *)
(* of the four HVO columns alertLevel and colorCode.                       *)
(***************************************************************************)
TicksPerHour == 2  \* resolution of the time axis

NaT == -1          \* pandas NaT: a timestamp that failed to parse

NaN == 0           \* a missing cell; every measurement is positive

Sources == <<"aqs", "airnow", "purpleair", "openmeteo", "hvo">>

\* The header of each interim file, as its cleaner writes it.
CleanColumns ==
    [aqs |-> {"datetime_utc", "site_number", "sample_measurement"},
     airnow |-> {"datetime_utc", "ParameterName", "AQI"},
     purpleair |-> {"datetime_utc", "sensor_index", "pm25_atm"},
     openmeteo |-> {"datetime_utc", "temperature_2m"},
     hvo |-> {"datetime_utc", "noticeId", "alertLevel", "colorCode"}]

EmptyFrame == [columns |-> {}, rows |-> <<>>]

\* DataMerger._read: a missing file gives pd.DataFrame(), without columns.
read(file, src) ==
    IF ~file.exists THEN EmptyFrame
    ELSE [columns |-> CleanColumns[src], rows |-> file.rows]

\* load_all
load_all(files) == [src \in DOMAIN files |-> read(files[src], src)]

\* df.loc[:, keep].rename(...): the prep_* methods; an empty frame is returned
\* as it is.
prep_aqs(df) ==
    IF df.rows = <<>> THEN df
    ELSE [columns |-> {"datetime_utc", "pm25_aqs"},
          rows |-> [i \in DOMAIN df.rows |->
                      [datetime_utc |-> df.rows[i].datetime_utc,
                       pm25_aqs |-> df.rows[i].sample_measurement]]]

prep_airnow(df) ==
    IF df.rows = <<>> THEN df
    ELSE [columns |-> {"datetime_utc", "aqi_airnow"},
          rows |-> [i \in DOMAIN df.rows |->
                      [datetime_utc |-> df.rows[i].datetime_utc,
                       aqi_airnow |-> df.rows[i].AQI]]]

prep_purpleair(df) ==
    IF df.rows = <<>> THEN df
    ELSE [columns |-> {"datetime_utc", "pm25_purpleair"},
          rows |-> [i \in DOMAIN df.rows |->
                      [datetime_utc |-> df.rows[i].datetime_utc,
                       pm25_purpleair |-> df.rows[i].pm25_atm]]]

prep_openmeteo(df) ==
    IF df.rows = <<>> THEN df
    ELSE [columns |-> {"datetime_utc", "temperature_2m"},
          rows |-> [i \in DOMAIN df.rows |->
                      [datetime_utc |-> df.rows[i].datetime_utc,
                       temperature_2m |-> df.rows[i].temperature_2m]]]

prep_hvo(df) ==
    IF df.rows = <<>> THEN df
    ELSE [columns |-> {"datetime_utc", "alertLevel", "colorCode"},
          rows |-> [i \in DOMAIN df.rows |->
                      [datetime_utc |-> df.rows[i].datetime_utc,
                       alertLevel |-> df.rows[i].alertLevel,
                       colorCode |-> df.rows[i].colorCode]]]

\* Comparisons of timestamps: every comparison with NaT is False.
Lt(a, b) == a # NaT /\ b # NaT /\ a < b

Gt(a, b) == a # NaT /\ b # NaT /\ a > b

\* Python's min(iterable) and max(iterable): the first item stays until a
\* later one compares strictly less (greater).
PyMin(xs) ==
    LET F[n \in 1..Len(xs)] ==
            IF n = 1 THEN xs[1]
            ELSE IF Lt(xs[n], F[n - 1]) THEN xs[n] ELSE F[n - 1]
    IN  F[Len(xs)]

PyMax(xs) ==
    LET F[n \in 1..Len(xs)] ==
            IF n = 1 THEN xs[1]
            ELSE IF Gt(xs[n], F[n - 1]) THEN xs[n] ELSE F[n - 1]
    IN  F[Len(xs)]

\* Series.min() and Series.max(): NaT is skipped; NaT when nothing is left.
Stamps(df) == {df.rows[i].datetime_utc : i \in DOMAIN df.rows} \ {NaT}

SeriesMin(df) == IF Stamps(df) = {} THEN NaT ELSE MinOf(Stamps(df))

SeriesMax(df) == IF Stamps(df) = {} THEN NaT ELSE MaxOf(Stamps(df))

\* pd.date_range(start, end, freq="H"): start, start + 1h, ... up to end;
\* a NaT bound raises ValueError.
date_range(start, end) ==
    IF start = NaT \/ end = NaT
    THEN [ok |-> FALSE, error |-> "ValueError", idx |-> <<>>]
    ELSE [ok |-> TRUE, error |-> "",
          idx |-> [k \in 1..(((end - start) \div TicksPerHour) + 1) |->
                     start + (k - 1) * TicksPerHour]]

\* A mutation of build_hourly_index: frames without rows are skipped, and
\* nothing guards the case that none is left.
build_hourly_index_skipping(frames) ==
    LET live == {i \in DOMAIN frames : frames[i].rows # <<>>}
        kept == Pick(frames, live)
    IN  IF live = {} THEN [ok |-> TRUE, error |-> "", idx |-> <<>>]
        ELSE date_range(PyMin([i \in DOMAIN kept |-> SeriesMin(kept[i])]),
                        PyMax([i \in DOMAIN kept |-> SeriesMax(kept[i])]))

\* build_hourly_index(frames): df["datetime_utc"] raises KeyError on a frame
\* without that column.
build_hourly_index(frames) ==
    IF \E i \in DOMAIN frames : "datetime_utc" \notin frames[i].columns
    THEN [ok |-> FALSE, error |-> "KeyError", idx |-> <<>>]
    ELSE LET start == PyMin([i \in DOMAIN frames |-> SeriesMin(frames[i])])
             end == PyMax([i \in DOMAIN frames |-> SeriesMax(frames[i])])
         IN  date_range(start, end)

\* Concatenation of a sequence of sequences.
Flatten(ss) ==
    LET F[n \in 0..Len(ss)] == IF n = 0 THEN <<>> ELSE F[n - 1] \o ss[n]
    IN  F[Len(ss)]

\* The cells a left row gets when no row of add_df matches.
NaNs(cols) == [c \in cols |-> NaN]

Restrict(r, cols) == [c \in cols |-> r[c]]

\* left_join: base_df.merge(add_df, on="datetime_utc", how="left"); every
\* left row stays, once per matching right row, in the order of add_df.
left_join(base_df, add_df) ==
    IF add_df.rows = <<>> THEN base_df
    ELSE LET vcols == add_df.columns \ {"datetime_utc"}
             Matches(b) == {j \in DOMAIN add_df.rows :
                              add_df.rows[j].datetime_utc = b.datetime_utc}
             Joined(b) ==
                 IF Matches(b) = {} THEN <<b @@ NaNs(vcols)>>
                 ELSE LET m == Pick(add_df.rows, Matches(b))
                      IN  [k \in DOMAIN m |-> b @@ Restrict(m[k], vcols)]
         IN  [columns |-> base_df.columns \cup add_df.columns,
              rows |-> Flatten([i \in DOMAIN base_df.rows |->
                                  Joined(base_df.rows[i])])]

\* sort_values("datetime_utc") of the merged table.
SortByStamp(rows) ==
    LET Rank(i) == Cardinality({j \in DOMAIN rows :
                    \/ rows[j].datetime_utc < rows[i].datetime_utc
                    \/ rows[j].datetime_utc = rows[i].datetime_utc /\ j < i}) + 1
    IN  [k \in 1..Len(rows) |-> rows[CHOOSE i \in DOMAIN rows : Rank(i) = k]]

\* A mutation of the final step: the drop_duplicates is left out.
final_sort_only(rows) == SortByStamp(rows)

\* The final drop_duplicates(subset=["datetime_utc"]).sort_values(...).
final_dedup(rows) ==
    SortByStamp(Pick(rows, KeptRows([i \in DOMAIN rows |-> rows[i].datetime_utc])))

\* merge_all: [ok, error, idx, table].
merge_all(files) ==
    LET raw == load_all(files)
        aqs == prep_aqs(raw.aqs)
        airnow == prep_airnow(raw.airnow)
        purpleair == prep_purpleair(raw.purpleair)
        openmeteo == prep_openmeteo(raw.openmeteo)
        hvo == prep_hvo(raw.hvo)
        frames == <<aqs, airnow, purpleair, openmeteo, hvo>>
        grid == build_hourly_index(frames)
        base == [columns |-> {"datetime_utc"},
                 rows |-> [k \in DOMAIN grid.idx |-> [datetime_utc |-> grid.idx[k]]]]
        joined == left_join(left_join(left_join(left_join(left_join(
                      base, aqs), airnow), purpleair), openmeteo), hvo)
    IN  IF ~grid.ok
        THEN [ok |-> FALSE, error |-> grid.error, idx |-> <<>>,
              table |-> EmptyFrame]
        ELSE [ok |-> TRUE, error |-> "", idx |-> grid.idx,
              table |-> [columns |-> joined.columns,
                         rows |-> final_dedup(joined.rows)]]


\* ---- the interim files the merge may meet ----
MaxPerHour == 2    \* rows one source holds for one hour at most

\* The hours a source reports.
HourSets == {{0, 1, 3}, {1, 2}, {2}}

\* The elements of a set of integers, ascending.
Ascending(S) ==
    [k \in 1..Cardinality(S) |->
        CHOOSE x \in S : Cardinality({y \in S : y < x}) = k - 1]

AqsRow(h, k) ==
    [datetime_utc |-> h * TicksPerHour, site_number |-> k,
     sample_measurement |-> 100 + 10 * k + h]

\* The pollutants AirNow reports for the area; which of them has an
\* observation for an hour, and in which order the API lists them, varies.
Pollutants == <<"OZONE", "PM2.5", "PM10">>

AirnowRow(h, k) ==
    [datetime_utc |-> h * TicksPerHour,
     ParameterName |-> Pollutants[((h + k) % Len(Pollutants)) + 1],
     AQI |-> 200 + 10 * k + h]

PurpleairRow(h, k) ==
    [datetime_utc |-> h * TicksPerHour, sensor_index |-> k,
     pm25_atm |-> 300 + 10 * k + h]

OpenmeteoRow(h, k) ==
    [datetime_utc |-> h * TicksPerHour, temperature_2m |-> 400 + h]

\* An HVO record carries its pull time, off ticks past the hour.
HvoRow(off, h) ==
    [datetime_utc |-> h * TicksPerHour + off, noticeId |-> h,
     alertLevel |-> 1 + (h % 2), colorCode |-> IF h = 0 THEN 1 ELSE 2]

\* The k-th row of hour h in the cleaned file of src.
RowOf(src, h, k, off) ==
    CASE src = "aqs" -> AqsRow(h, k)
      [] src = "airnow" -> AirnowRow(h, k)
      [] src = "purpleair" -> PurpleairRow(h, k)
      [] src = "openmeteo" -> OpenmeteoRow(h, k)
      [] src = "hvo" -> HvoRow(off, h)

\* A cleaned file with m rows for every hour of H, ascending in time, as the
\* cleaners leave it.
GenFile(src, H, m, off) ==
    File([n \in 1..(Cardinality(H) * m) |->
            RowOf(src, Ascending(H)[((n - 1) \div m) + 1], ((n - 1) % m) + 1, off)])

Empties == {NoFile, File(<<>>)}

\* Several rows per hour: AQS sites, AirNow pollutants, PurpleAir sensors.
\* Open-Meteo and HVO hold one row per timestamp; an HVO record is pulled on
\* the hour or one tick past it.
InterimChoices ==
    [aqs : Empties \cup {GenFile("aqs", H, m, 0) : H \in HourSets, m \in 1..MaxPerHour},
     airnow : Empties \cup {GenFile("airnow", H, m, 0) : H \in HourSets, m \in 1..MaxPerHour},
     purpleair : Empties \cup {GenFile("purpleair", H, m, 0) : H \in HourSets, m \in 1..MaxPerHour},
     openmeteo : Empties \cup {GenFile("openmeteo", H, 1, 0) : H \in HourSets},
     hvo : Empties \cup {GenFile("hvo", H, 1, off) : H \in HourSets, off \in {0, 1}}]

\* A mutation of save: to_csv(mode="a").
save_appending(file, df) == File(file.rows \o df.rows)

\* save: df.to_csv(self.paths.merged, index=False) writes the file anew.
save(file, df) == File(df.rows)

\* ---- the merge run (cli/merge_all.py) ----
\* merge_all, then save; an error of merge_all ends the script before save.
\* The script runs on the interim files a cleaning run has left, and may be
\* run again on the same files.
MergeRun ==
    /\ runs \in {"none", "once"}
    /\ cleanExit = "success"
    /\ LET out == merge_all(interim)
       IN  /\ outcome' = IF out.ok THEN "ok" ELSE out.error
           /\ idx' = out.idx
           /\ merged' = IF out.ok THEN save(merged, out.table) ELSE merged
    /\ runs' = IF runs = "none" THEN "once" ELSE "twice"
    /\ last' = [op |-> "merge_all", input |-> <<>>, before |-> merged]
    /\ UNCHANGED interim
    /\ UNCHANGED <<script, airnowRaw, aqsRaw, purpleairRaw, hvoRaw,
                   openmeteoRaw, hvoHistory, clock>>
    /\ UNCHANGED cleanVars
    /\ UNCHANGED runVars

InitMerge ==
    /\ interim \in InterimChoices
    /\ merged = NoFile
    /\ idx = <<>>
    /\ outcome = "idle"
    /\ runs = "none"
    /\ cleanLog = <<>>
    /\ cleanExit = "success"
    /\ script = "none"
    /\ airnowRaw = NoFile
    /\ aqsRaw = NoFile
    /\ purpleairRaw = NoFile
    /\ hvoRaw = NoFile
    /\ openmeteoRaw = NoFile
    /\ hvoHistory = NoFile
    /\ clock = 0
    /\ last = NoRun
    /\ pc = "idle"
    /\ window = NoWindow
    /\ current = 0
    /\ chunks = <<>>
    /\ new_data = <<>>
    /\ writers = <<>>
    /\ schedule = <<>>

NextMerge == MergeRun

(***************************************************************************)
(* Part III - data_cleaner.py and cli/clean_all.py.                        *)
(*                                                                         *)
(* A raw archive read by read_csv is a frame [columns, rows].  A time cell *)
(* is a tick count, NaT when the cell is empty, Unparsable when it holds   *)
(* text that is no time; a numeric cell is a positive number, NaN when it  *)
(* is empty, Unparsable when it holds text that is no number.  A cleaner   *)
(* returns [ok, error, df]; ok is FALSE when it raised.                    *)
(***************************************************************************)
MaxRawRows == 2    \* data rows a raw archive holds at most

Unparsable == -2   \* a cell whose text is no time and no number

HoursPerDay == 24

Raised(error) == [ok |-> FALSE, error |-> error, df |-> EmptyFrame]

Returned(df) == [ok |-> TRUE, error |-> "", df |-> df]

\* A mutation of errors="coerce": text that is no date gives the epoch.
to_datetime_parts_epoch(day, time) ==
    IF day < 0 \/ time < 0 THEN 0
    ELSE day * HoursPerDay * TicksPerHour + time

\* pd.to_datetime(date + " " + time, errors="coerce", utc=True): day and time
\* of day combine to a timestamp; text that is no date or no time gives NaT.
to_datetime_parts(day, time) ==
    IF day < 0 \/ time < 0 THEN NaT
    ELSE day * HoursPerDay * TicksPerHour + time

\* pd.to_datetime(x, errors="coerce", utc=True) on one cell.
to_datetime_coerce(x) == IF x < 0 THEN NaT ELSE x

\* Series.dt.floor("h"); NaT stays NaT.
floor_h(t) == IF t = NaT THEN NaT ELSE (t \div TicksPerHour) * TicksPerHour

\* pd.to_numeric(x, errors="coerce") on one cell.
to_numeric_coerce(x) == IF x < 0 THEN NaN ELSE x

\* The row without the cells of the columns cs.
DropCols(r, cs) == [c \in (DOMAIN r) \ cs |-> r[c]]

\* df.drop(columns=cs, errors="ignore")
drop_columns(df, cs) ==
    [columns |-> df.columns \ cs,
     rows |-> [i \in DOMAIN df.rows |-> DropCols(df.rows[i], cs)]]

\* df[c] = cells: the column c is set on every row.
assign(df, c, cells) ==
    [columns |-> df.columns \cup {c},
     rows |-> [i \in DOMAIN df.rows |->
                 [k \in (DOMAIN df.rows[i]) \cup {c} |->
                    IF k = c THEN cells[i] ELSE df.rows[i][k]]]]

\* The order of sort_values("datetime_utc"): NaT sorts last.
Before(a, b) == a # NaT /\ (b = NaT \/ a < b)

\* A mutation of sort_values: the frame is left in the order it has.
unsorted(rows) == rows

\* df.sort_values("datetime_utc").reset_index(drop=True); rows of the same
\* timestamp keep their order.
sort_values(rows) ==
    LET Rank(i) == Cardinality({j \in DOMAIN rows :
                    \/ Before(rows[j].datetime_utc, rows[i].datetime_utc)
                    \/ /\ ~Before(rows[i].datetime_utc, rows[j].datetime_utc)
                       /\ j < i}) + 1
    IN  [k \in 1..Len(rows) |-> rows[CHOOSE i \in DOMAIN rows : Rank(i) = k]]

\* df.drop_duplicates(subset=subset): the cells of the subset make the key;
\* missing cells (NaT, NaN) compare equal to each other.
drop_duplicates(rows, subset) ==
    Pick(rows, KeptRows([i \in DOMAIN rows |-> Restrict(rows[i], subset)]))

\* ---- clean_airnow ----
\* The header clean_airnow assigns to a file without one, cut to the columns
\* of the model.
AirnowHeader ==
    <<"DateObserved", "HourObserved", "ReportingArea", "ParameterName", "AQI">>

\* The text of a date or hour cell, as read_csv makes a column label of it.
CellText(v) == IF v = Unparsable THEN "?" ELSE ToString(v)

\* df.columns = names: the columns are renamed by position.
set_columns(df, names) ==
    [columns |-> Range(names), order |-> names,
     rows |-> [i \in DOMAIN df.rows |->
                 [c \in Range(names) |->
                    df.rows[i][df.order[CHOOSE k \in DOMAIN names : names[k] = c]]]]]

\* HourObserved counts hours of the day.
hour_ticks(hour) == IF hour < 0 THEN hour ELSE hour * TicksPerHour

clean_airnow(df) ==
    IF df.rows = <<>> \/ df.order = <<>>
    THEN Raised("IndexError")                     \* df.iloc[0, 0]
    ELSE LET headerless == df.order[1] = CellText(df.rows[1][df.order[1]])
             named == IF headerless THEN set_columns(df, AirnowHeader) ELSE df
             stamped == assign(named, "datetime_utc",
                           [i \in DOMAIN named.rows |->
                              to_datetime_parts(named.rows[i].DateObserved,
                                 hour_ticks(named.rows[i].HourObserved))])
             dropped == drop_columns(stamped, {"DateObserved", "HourObserved"})
             deduped == drop_duplicates(dropped.rows,
                           {"ReportingArea", "ParameterName", "datetime_utc"})
         IN  IF headerless /\ Len(df.order) # Len(AirnowHeader)
             THEN Raised("ValueError")            \* length mismatch
             ELSE IF ~({"DateObserved", "HourObserved"} \subseteq named.columns)
             THEN Raised("KeyError")
             ELSE IF ~({"ReportingArea", "ParameterName"} \subseteq named.columns)
             THEN Raised("KeyError")
             ELSE Returned([columns |-> dropped.columns,
                            rows |-> sort_values(deduped)])

\* ---- clean_aqs ----
\* The columns of the dedup subset besides datetime_utc; the rows of the
\* model are of one state, county and parameter and differ in the site.
AqsKeyColumns == {"state_code", "county_code", "site_number", "parameter_code"}

clean_aqs(df) ==
    IF ~({"date_gmt", "time_gmt"} \subseteq df.columns) THEN Raised("KeyError")
    ELSE IF "qualifier" \notin df.columns THEN Raised("KeyError")
    ELSE IF ~(AqsKeyColumns \subseteq df.columns) THEN Raised("KeyError")
    ELSE LET stamped == assign(df, "datetime_utc",
                           [i \in DOMAIN df.rows |->
                              to_datetime_parts(df.rows[i].date_gmt,
                                                df.rows[i].time_gmt)])
             dropped == drop_columns(stamped, {"date_gmt", "time_gmt"})
             sorted == sort_values(drop_duplicates(dropped.rows,
                                      {"site_number", "datetime_utc"}))
         IN  Returned([columns |-> dropped.columns,
                       rows |-> [i \in DOMAIN sorted |->
                                   [sorted[i] EXCEPT
                                      !.datetime_utc = floor_h(@)]]])

\* ---- clean_purpleair ----
\* pd.to_datetime(series, unit="s", utc=True), errors="raise": an empty cell
\* gives NaT, a cell that is no number raises.
clean_purpleair(df) ==
    LET src == IF "time_stamp" \in df.columns THEN "time_stamp" ELSE "last_seen"
        stamped == assign(df, "datetime_utc",
                      [i \in DOMAIN df.rows |->
                         floor_h(to_datetime_coerce(df.rows[i][src]))])
        dropped == drop_columns(stamped, {"time_stamp", "last_seen"})
    IN  IF ~({"time_stamp", "last_seen"} \cap df.columns # {})
        THEN Raised("ValueError")
        ELSE IF \E i \in DOMAIN df.rows : df.rows[i][src] = Unparsable
        THEN Raised("ValueError")
        ELSE IF "sensor_index" \notin df.columns THEN Raised("KeyError")
        ELSE Returned([columns |-> dropped.columns,
                       rows |-> sort_values(drop_duplicates(dropped.rows,
                                   {"sensor_index", "datetime_utc"}))])

\* ---- clean_hvo ----
\* Series.ne(Series.shift()): the first row has no predecessor, and a missing
\* value is unequal to everything, itself included.
ne_shift(cells) ==
    [i \in DOMAIN cells |->
        \/ i = 1
        \/ cells[i] = NaN
        \/ cells[i - 1] = NaN
        \/ cells[i] # cells[i - 1]]

\* A mutation of the change flag: the first row is compared with nothing and
\* flagged FALSE.
ne_shift_first_false(cells) ==
    [i \in DOMAIN cells |-> i > 1 /\ cells[i] # cells[i - 1]]

\* The change flag of a column.
change_flag(cells) == ne_shift(cells)

clean_hvo(df) ==
    IF "timestamp_utc" \notin df.columns THEN Raised("KeyError")
    ELSE IF "noticeId" \notin df.columns THEN Raised("KeyError")
    ELSE IF "alertLevel" \notin df.columns THEN Raised("KeyError")
    ELSE IF "colorCode" \notin df.columns THEN Raised("KeyError")
    ELSE LET stamped == assign(df, "datetime_utc",
                           [i \in DOMAIN df.rows |->
                              to_datetime_coerce(df.rows[i].timestamp_utc)])
             dropped == drop_columns(stamped, {"timestamp_utc"})
             sorted == sort_values(drop_duplicates(dropped.rows, {"noticeId"}))
             sf == [columns |-> dropped.columns, rows |-> sorted]
             alert == assign(sf, "alert_change",
                         change_flag([i \in DOMAIN sorted |-> sorted[i].alertLevel]))
             color == assign(alert, "color_change",
                         change_flag([i \in DOMAIN sorted |-> sorted[i].colorCode]))
         IN  Returned(color)

\* ---- clean_openmeteo ----
\* Of num_cols the model keeps two core fields and rain.
NumCols == {"temperature_2m", "precipitation", "rain"}

CoreWeather == {"temperature_2m", "precipitation"}

\* A mutation of the drop rule: how="any".
dropna_any(rows, subset) ==
    Pick(rows, {i \in DOMAIN rows : \A c \in subset : rows[i][c] # NaN})

\* df.dropna(subset=subset, how="all"): a row goes when all cells of the
\* subset are missing (every row when the subset is empty).
dropna_all(rows, subset) ==
    Pick(rows, {i \in DOMAIN rows : \E c \in subset : rows[i][c] # NaN})

clean_openmeteo(df) ==
    IF "datetime_utc" \notin df.columns THEN Raised("ValueError")
    ELSE LET coerced ==
                 [i \in DOMAIN df.rows |->
                    [c \in DOMAIN df.rows[i] |->
                       IF c = "datetime_utc" THEN to_datetime_coerce(df.rows[i][c])
                       ELSE IF c \in NumCols THEN to_numeric_coerce(df.rows[i][c])
                       ELSE df.rows[i][c]]]
             kept == dropna_all(coerced, CoreWeather \cap df.columns)
         IN  Returned([columns |-> df.columns,
                       rows |-> sort_values(drop_duplicates(kept,
                                   {"datetime_utc"}))])

\* ---- the raw archives the cleaning run may meet ----
\* A raw archive with a header: the columns in file order, and the data rows.
RawFile(order, rows) ==
    [exists |-> TRUE, columns |-> Range(order), order |-> order, rows |-> rows]

\* The sequence without the entries equal to c.
Without(order, c) == Pick(order, {k \in DOMAIN order : order[k] # c})

\* The archive with the column c missing.
LackingColumn(file, c) ==
    RawFile(Without(file.order, c),
            [i \in DOMAIN file.rows |-> DropCols(file.rows[i], {c})])

\* AirNow observations: the day (0: the day the time axis starts), the hour
\* of the day, the pollutant.
AirnowCells ==
    [DateObserved : {0, Unparsable}, HourObserved : {0, 1},
     ParameterName : {"PM2.5", "OZONE"}]

\* The AQI of the i-th record of an archive: every record has its own.
AirnowAqi(i) == 200 + i

AirnowFile(cells) ==
    RawFile(AirnowHeader,
            [i \in DOMAIN cells |->
               [DateObserved |-> cells[i].DateObserved,
                HourObserved |-> cells[i].HourObserved,
                ReportingArea |-> "Hilo",
                ParameterName |-> cells[i].ParameterName,
                AQI |-> AirnowAqi(i)]])

\* The same records in a file without a header line: read_csv takes the
\* first record for the header.
HeaderlessLabels(first) ==
    <<CellText(first.DateObserved), "col2", "col3", "col4", "col5">>

Headerless(file) ==
    LET labels == HeaderlessLabels(file.rows[1])
        rest == Tail(file.rows)
    IN  RawFile(labels,
                [i \in DOMAIN rest |->
                   [c \in Range(labels) |->
                      rest[i][AirnowHeader[CHOOSE k \in DOMAIN labels :
                                              labels[k] = c]]]])

RawAirnow ==
    LET full == {AirnowFile(s) : s \in SeqsUpTo(AirnowCells, MaxRawRows)}
        one == {AirnowFile(s) : s \in [1..1 -> AirnowCells]}
    IN  full
        \cup {Headerless(f) : f \in {g \in full : g.rows # <<>>}}
        \cup {LackingColumn(f, c) :
                f \in one, c \in {"DateObserved", "HourObserved", "ParameterName"}}

\* AQS samples: the time of day in ticks, the site.
AqsCells ==
    [date_gmt : {0}, time_gmt : {0, 1, TicksPerHour, Unparsable},
     site_number : {1, 2}]

AqsHeader ==
    <<"state_code", "county_code", "site_number", "parameter_code",
      "date_gmt", "time_gmt", "sample_measurement", "qualifier">>

AqsFile(cells) ==
    RawFile(AqsHeader,
            [i \in DOMAIN cells |->
               [date_gmt |-> cells[i].date_gmt, time_gmt |-> cells[i].time_gmt,
                site_number |-> cells[i].site_number,
                sample_measurement |-> 100 + i]])

RawAqs ==
    {AqsFile(s) : s \in SeqsUpTo(AqsCells, MaxRawRows)}
    \cup {LackingColumn(AqsFile(s), c) :
            s \in [1..1 -> AqsCells],
            c \in {"date_gmt", "time_gmt", "qualifier"} \cup AqsKeyColumns}

\* PurpleAir history rows: the epoch of the reading, the sensor.
PurpleairCells ==
    [time_stamp : {0, 1, TicksPerHour, NaT, Unparsable}, sensor_index : {1, 2}]

PurpleairFile(cells, stamp) ==
    RawFile(<<stamp, "sensor_index", "pm25_atm">>,
            [i \in DOMAIN cells |->
               (stamp :> cells[i].time_stamp)
                 @@ [sensor_index |-> cells[i].sensor_index,
                     pm25_atm |-> 300 + i]])

RawPurpleair ==
    {PurpleairFile(s, "time_stamp") : s \in SeqsUpTo(PurpleairCells, MaxRawRows)}
    \cup {PurpleairFile(s, "last_seen") : s \in [1..1 -> PurpleairCells]}
    \cup {LackingColumn(PurpleairFile(s, "time_stamp"), c) :
            s \in [1..1 -> PurpleairCells], c \in {"time_stamp", "sensor_index"}}

\* HVO pulls: the pull time, the notice, its alert level and colour code
\* (1 = YELLOW, 2 = ORANGE; NaN: the status document had none).
HvoLevels == {<<1, 1>>, <<2, 1>>, <<2, 2>>, <<NaN, NaN>>}

HvoCells ==
    [timestamp_utc : {0, TicksPerHour, Unparsable}, noticeId : Notices,
     level : HvoLevels]

HvoFile(cells) ==
    RawFile(<<"timestamp_utc", "alertLevel", "colorCode", "noticeId">>,
            [i \in DOMAIN cells |->
               [timestamp_utc |-> cells[i].timestamp_utc,
                alertLevel |-> cells[i].level[1],
                colorCode |-> cells[i].level[2],
                noticeId |-> cells[i].noticeId]])

RawHvo ==
    {HvoFile(s) : s \in SeqsUpTo(HvoCells, MaxRawRows)}
    \cup {LackingColumn(HvoFile(s), c) :
            s \in [1..1 -> HvoCells],
            c \in {"timestamp_utc", "alertLevel", "colorCode", "noticeId"}}

\* Open-Meteo hours: the timestamp, the two core fields, rain.
OmCore == {<<NaN, NaN>>, <<Unparsable, NaN>>, <<400, NaN>>, <<NaN, 5>>}

OmCells ==
    [datetime_utc : {0, TicksPerHour, Unparsable}, core : OmCore,
     rain : {NaN, 3}]

OmFile(cells) ==
    RawFile(<<"datetime_utc", "temperature_2m", "precipitation", "rain">>,
            [i \in DOMAIN cells |->
               [datetime_utc |-> cells[i].datetime_utc,
                temperature_2m |-> IF cells[i].core[1] > 0
                                   THEN cells[i].core[1] + i
                                   ELSE cells[i].core[1],
                precipitation |-> cells[i].core[2],
                rain |-> cells[i].rain]])

RawOpenmeteo ==
    {OmFile(s) : s \in SeqsUpTo(OmCells, MaxRawRows)}
    \cup {LackingColumn(OmFile(s), c) :
            s \in [1..1 -> OmCells], c \in {"datetime_utc", "precipitation"}}

RawChoices ==
    [airnow |-> RawAirnow, aqs |-> RawAqs, purpleair |-> RawPurpleair,
     hvo |-> RawHvo, openmeteo |-> RawOpenmeteo]

\* The archives of the sources the behaviour does not vary: two rows, at the
\* hours 0 and 1.
SampleRaw ==
    [airnow |-> AirnowFile(<<[DateObserved |-> 0, HourObserved |-> 0,
                              ParameterName |-> "PM2.5"],
                             [DateObserved |-> 0, HourObserved |-> 1,
                              ParameterName |-> "PM2.5"]>>),
     aqs |-> AqsFile(<<[date_gmt |-> 0, time_gmt |-> 0, site_number |-> 1],
                       [date_gmt |-> 0, time_gmt |-> TicksPerHour,
                        site_number |-> 1]>>),
     purpleair |-> PurpleairFile(<<[time_stamp |-> 0, sensor_index |-> 1],
                                   [time_stamp |-> TicksPerHour,
                                    sensor_index |-> 1]>>, "time_stamp"),
     hvo |-> HvoFile(<<[timestamp_utc |-> 0, noticeId |-> "n1",
                        level |-> <<1, 1>>],
                       [timestamp_utc |-> TicksPerHour, noticeId |-> "n2",
                        level |-> <<2, 2>>]>>),
     openmeteo |-> OmFile(<<[datetime_utc |-> 0, core |-> <<400, NaN>>,
                             rain |-> NaN],
                            [datetime_utc |-> TicksPerHour,
                             core |-> <<400, NaN>>, rain |-> NaN]>>)]

\* ---- cli/clean_all.py ----
\* The datasets in the order main() processes them.
Datasets == <<"airnow", "aqs", "purpleair", "hvo", "openmeteo">>

RawOf(name) ==
    CASE name = "airnow" -> airnowRaw
      [] name = "aqs" -> aqsRaw
      [] name = "purpleair" -> purpleairRaw
      [] name = "hvo" -> hvoRaw
      [] name = "openmeteo" -> openmeteoRaw

cleaner_func(name, df) ==
    CASE name = "airnow" -> clean_airnow(df)
      [] name = "aqs" -> clean_aqs(df)
      [] name = "purpleair" -> clean_purpleair(df)
      [] name = "hvo" -> clean_hvo(df)
      [] name = "openmeteo" -> clean_openmeteo(df)

\* pd.read_csv(raw_path)
read_csv(file) ==
    [columns |-> file.columns, order |-> file.order, rows |-> file.rows]

\* The body of the try block of process_dataset: the cleaned frame, or the
\* exception that was raised.
clean_file(name, file) ==
    IF ~file.exists THEN Raised("FileNotFoundError")
    ELSE cleaner_func(name, read_csv(file))

\* A mutation of process_dataset: the exception is raised again and ends
\* main().
after_dataset_raising(result) == IF result.ok THEN "running" ELSE "failed"

\* process_dataset catches every exception, prints it and returns.
after_dataset(result) == "running"

\* process_dataset for the next dataset of main().
ProcessDataset ==
    /\ cleanExit \in {"idle", "running"}
    /\ Len(cleanLog) < Len(Datasets)
    /\ script \in Range(Datasets) \cup {"clean_all"}
    /\ LET name == Datasets[Len(cleanLog) + 1]
           out == clean_file(name, RawOf(name))
       IN  /\ cleanLog' = Append(cleanLog,
                             [name |-> name,
                              printed |-> IF out.ok THEN "Saved" ELSE out.error])
           /\ interim' = IF out.ok
                         THEN [interim EXCEPT ![name] = File(out.df.rows)]
                         ELSE interim
           /\ cleanExit' = after_dataset(out)
    /\ UNCHANGED <<merged, idx, outcome, runs>>
    /\ UNCHANGED ingestVars
    /\ UNCHANGED runVars

\* The end of main(): "All datasets cleaned successfully!", exit status 0.
CleanDone ==
    /\ cleanExit = "running"
    /\ Len(cleanLog) = Len(Datasets)
    /\ cleanExit' = "success"
    /\ UNCHANGED cleanLog
    /\ UNCHANGED mergeVars
    /\ UNCHANGED ingestVars
    /\ UNCHANGED runVars

\* The cleaning run meets one archive out of the choices of its source and
\* the sample archives of the other four; the merge follows it.
InitClean ==
    /\ script \in Range(Datasets)
    /\ airnowRaw \in IF script = "airnow"
                     THEN RawChoices.airnow \cup {NoFile}
                     ELSE {SampleRaw.airnow}
    /\ aqsRaw \in IF script = "aqs"
                  THEN RawChoices.aqs \cup {NoFile}
                  ELSE {SampleRaw.aqs}
    /\ purpleairRaw \in IF script = "purpleair"
                        THEN RawChoices.purpleair \cup {NoFile}
                        ELSE {SampleRaw.purpleair}
    /\ hvoRaw \in IF script = "hvo"
                  THEN RawChoices.hvo \cup {NoFile}
                  ELSE {SampleRaw.hvo}
    /\ openmeteoRaw \in IF script = "openmeteo"
                        THEN RawChoices.openmeteo \cup {NoFile}
                        ELSE {SampleRaw.openmeteo}
    /\ hvoHistory = NoFile
    /\ clock = 0
    /\ last = NoRun
    /\ pc = "idle"
    /\ window = NoWindow
    /\ current = 0
    /\ chunks = <<>>
    /\ new_data = <<>>
    /\ writers = <<>>
    /\ schedule = <<>>
    /\ interim = NoInterim
    /\ merged = NoFile
    /\ idx = <<>>
    /\ outcome = "idle"
    /\ runs = "none"
    /\ cleanLog = <<>>
    /\ cleanExit = "idle"

NextClean ==
    \/ ProcessDataset
    \/ CleanDone
    \/ MergeRun

SpecClean == InitClean /\ [][NextClean]_vars


(***************************************************************************)
(* Part IV - runs taken step by step.                                      *)
(*                                                                         *)
(* Two processes inside append_unique of aqs_monthly.py on one archive     *)
(* (nothing in the script locks the file), and the chunk loops of          *)
(* aqs_monthly.py and openmeteo_recent.py one iteration at a time.         *)
(***************************************************************************)
\* ---- two writers in append_unique ----
Writers == {1, 2}

\* The archive the two runs meet: none, or one persisted row.
RaceArchives ==
    {NoFile, File(<<[key |-> "k1", sample_measurement |-> 10]>>)}

\* RAW_PATH.exists() and read_csv(RAW_PATH): the process takes its copy of
\* the archive (df_exist), or finds that there is none.
AqsRead ==
    /\ script = "append_unique"
    /\ \E w \in Writers :
          /\ writers[w].pc = "start"
          /\ writers' = [writers EXCEPT ![w].pc = "read", ![w].df_exist = aqsRaw]
          /\ schedule' = Append(schedule, <<w, "read">>)
    /\ UNCHANGED <<pc, window, current, chunks, new_data>>
    /\ UNCHANGED ingestVars
    /\ UNCHANGED mergeVars
    /\ UNCHANGED cleanVars

\* concat, drop_duplicates and to_csv(RAW_PATH): the archive is written anew
\* from the copy the process took and its batch.
AqsWrite ==
    /\ script = "append_unique"
    /\ \E w \in Writers, sameTypes \in BOOLEAN :
          /\ writers[w].pc = "read"
          /\ aqsRaw' = append_unique(writers[w].df_exist, writers[w].rows,
                                     sameTypes)
          /\ writers' = [writers EXCEPT ![w].pc = "done"]
          /\ schedule' = Append(schedule, <<w, "write">>)
    /\ UNCHANGED <<pc, window, current, chunks, new_data>>
    /\ UNCHANGED <<script, airnowRaw, purpleairRaw, hvoRaw, openmeteoRaw,
                   hvoHistory, clock, last>>
    /\ UNCHANGED mergeVars
    /\ UNCHANGED cleanVars

\* Two runs of the chunk loop have each fetched a chunk with records and
\* called append_unique.
InitRace ==
    /\ script = "append_unique"
    /\ aqsRaw \in RaceArchives
    /\ writers \in [Writers ->
                      {[pc |-> "start", rows |-> r, df_exist |-> NoFile] :
                          r \in SeqsUpTo(AqsRecs, MaxBatch) \ {<<>>}}]
    /\ schedule = <<>>
    /\ airnowRaw = NoFile
    /\ purpleairRaw = NoFile
    /\ hvoRaw = NoFile
    /\ hvoHistory = NoFile
    /\ openmeteoRaw = NoFile
    /\ clock = 0
    /\ last = NoRun
    /\ interim = NoInterim
    /\ merged = NoFile
    /\ idx = <<>>
    /\ outcome = "idle"
    /\ runs = "none"
    /\ cleanLog = <<>>
    /\ cleanExit = "idle"
    /\ pc = "idle"
    /\ window = NoWindow
    /\ current = 0
    /\ chunks = <<>>
    /\ new_data = <<>>

NextRace ==
    \/ AqsRead
    \/ AqsWrite

SpecRace == InitRace /\ [][NextRace]_vars

\* ---- the chunk loop of aqs_monthly.py ----
\* Dates are day numbers; strftime("%Y%m%d") keeps their order.
MaxChunks == 4     \* full chunks the window of a run spans at most

OVERLAP_DAYS == 120

CHUNK_DAYS == 30

AqsYearDays == 365

AqsLagDays == 2

\* date.today(): a day late enough for every window to begin after day 0.
Today == AqsYearDays + OVERLAP_DAYS + (MaxChunks + 1) * CHUNK_DAYS

\* A sample of the day d of one site.
AqsDayRow(d) ==
    [key |-> <<"site", d>>, sample_measurement |-> 10, date_local |-> d]

\* df["date_local"].max()
latest_of(file) == MaxOf({file.rows[i].date_local : i \in DOMAIN file.rows})

\* end_date and start_date.
aqs_window(file, today) ==
    LET end_date == today - AqsLagDays
    IN  [start |-> IF file.exists THEN latest_of(file) - OVERLAP_DAYS
                   ELSE end_date - AqsYearDays,
         end |-> end_date]

\* A mutation of chunk_end: the chunk is not cut at end_date.
aqs_chunk_end_uncut(cur, end_date) == cur + (CHUNK_DAYS - 1)

\* chunk_end = min(current + timedelta(days=CHUNK_DAYS - 1), end_date)
aqs_chunk_end(cur, end_date) ==
    IF cur + (CHUNK_DAYS - 1) < end_date THEN cur + (CHUNK_DAYS - 1)
    ELSE end_date

\* fetch_chunk(bdate, edate): no records (or a failed request), or the
\* sample of the first day of the chunk.
AqsFetched(bdate, edate) == {<<>>, <<AqsDayRow(bdate)>>}

\* The days between the window an archive leads to and end_date: from a
\* window that is empty to one of MaxChunks chunks and a day.
AqsSpans == (0 - 2)..(MaxChunks * CHUNK_DAYS + 1)

\* The archives a run meets: none, or one whose latest local date makes the
\* window span the given days.
AqsArchives ==
    {NoFile} \cup
    {File(<<AqsDayRow((Today - AqsLagDays) - g + OVERLAP_DAYS)>>) : g \in AqsSpans}

\* The lines before the loop: the window, and exit() when it is empty.
AqsWindow ==
    /\ script = "aqs_monthly"
    /\ pc = "idle"
    /\ LET w == aqs_window(aqsRaw, clock)
       IN  /\ window' = w
           /\ current' = w.start
           /\ pc' = IF w.start > w.end THEN "done" ELSE "loop"
    /\ last' = [op |-> "aqs_monthly_run", input |-> clock, before |-> aqsRaw]
    /\ UNCHANGED <<chunks, new_data, writers, schedule>>
    /\ UNCHANGED <<script, airnowRaw, aqsRaw, purpleairRaw, hvoRaw,
                   openmeteoRaw, hvoHistory, clock>>
    /\ UNCHANGED mergeVars
    /\ UNCHANGED cleanVars

\* One iteration of the while loop: the chunk is requested, its records go
\* through append_unique, current moves past the chunk.
AqsChunk ==
    /\ script = "aqs_monthly"
    /\ pc = "loop"
    /\ current <= window.end
    /\ LET chunk_end == aqs_chunk_end(current, window.end)
       IN  /\ \E rows \in AqsFetched(current, chunk_end), sameTypes \in BOOLEAN :
                 /\ Room(aqsRaw, Len(rows))
                 /\ aqsRaw' = append_unique(aqsRaw, rows, sameTypes)
           /\ chunks' = Append(chunks, [bdate |-> current, edate |-> chunk_end])
           /\ current' = chunk_end + 1
           /\ pc' = IF chunk_end + 1 <= window.end THEN "loop" ELSE "done"
    /\ UNCHANGED <<window, new_data, writers, schedule>>
    /\ UNCHANGED <<script, airnowRaw, purpleairRaw, hvoRaw, openmeteoRaw,
                   hvoHistory, clock, last>>
    /\ UNCHANGED mergeVars
    /\ UNCHANGED cleanVars

\* ---- the chunk loop of openmeteo_recent.py ----
\* Timestamps are hour numbers.
OmLagDays == 5

OmChunkDays == 31

ChunkHours == OmChunkDays * HoursPerDay

\* datetime.utcnow(), in hours.
OmNow == (OmLagDays + (MaxChunks + 1) * OmChunkDays) * HoursPerDay

\* One hour of the archive, and one hour as a chunk delivers it.
OmPersisted(t) == [t |-> t, temperature_2m |-> "era5"]

OmRow(t) == [t |-> t, temperature_2m |-> "era5t"]

\* last_date, start_date (the hour after it) and end_date; NaT when the
\* archive holds no row.
om_window(file, now) ==
    LET last_date == IF file.rows = <<>> THEN NaT
                     ELSE MaxOf({file.rows[i].t : i \in DOMAIN file.rows})
    IN  [start |-> IF last_date = NaT THEN NaT ELSE last_date + 1,
         end |-> now - OmLagDays * HoursPerDay]

\* chunk_end = min(current + pd.DateOffset(days=31), end_date)
om_chunk_end(cur, end_date) ==
    IF cur + ChunkHours < end_date THEN cur + ChunkHours ELSE end_date

\* fetch_chunk(current, chunk_end): None when the request failed, else the
\* hours of the days requested; the request is by date, so the hours of the
\* first day that lie before current come too, and the day a chunk ends on
\* is requested again by the next chunk.
OmFetched(cur, chunk_end) ==
    {[ok |-> FALSE, rows |-> <<>>]} \cup
    {[ok |-> TRUE, rows |-> r] :
        r \in {<<OmRow(cur - 1)>>,
               <<OmRow(cur), OmRow(chunk_end)>>,
               <<OmRow(cur - 1), OmRow(chunk_end)>>}}

\* The hours between start_date and end_date an archive leads to: around
\* every multiple of the chunk length.
OmGaps ==
    {k * ChunkHours + d : k \in 0..(MaxChunks - 1), d \in {0 - 1, 0, 1}}

\* The archives a run meets: none, one without rows, or two persisted hours
\* the last of which leaves the given gap.
OmArchives ==
    {NoFile, File(<<>>)} \cup
    {File(<<OmPersisted(l - 1), OmPersisted(l)>>) :
        l \in {(OmNow - OmLagDays * HoursPerDay) - g - 1 : g \in OmGaps}}

\* main() up to the loop: the two early returns.
OmBegin ==
    /\ script = "openmeteo_recent"
    /\ pc = "idle"
    /\ LET w == om_window(openmeteoRaw, clock)
       IN  IF ~openmeteoRaw.exists
           THEN /\ pc' = "done"
                /\ UNCHANGED <<window, current>>
           ELSE /\ window' = w
                /\ current' = w.start
                /\ pc' = IF w.start # NaT /\ w.start >= w.end THEN "done"
                         ELSE "loop"
    /\ last' = [op |-> "openmeteo_recent_run", input |-> clock,
                before |-> openmeteoRaw]
    /\ UNCHANGED <<chunks, new_data, writers, schedule>>
    /\ UNCHANGED <<script, airnowRaw, aqsRaw, purpleairRaw, hvoRaw,
                   openmeteoRaw, hvoHistory, clock>>
    /\ UNCHANGED mergeVars
    /\ UNCHANGED cleanVars

\* One iteration of the while loop.
OmChunk ==
    /\ script = "openmeteo_recent"
    /\ pc = "loop"
    /\ Lt(current, window.end)
    /\ LET chunk_end == om_chunk_end(current, window.end)
       IN  /\ \E df \in OmFetched(current, chunk_end) :
                 /\ new_data' = IF df.ok THEN Append(new_data, df.rows)
                                ELSE new_data
                 /\ chunks' = Append(chunks, [bdate |-> current,
                                              edate |-> chunk_end,
                                              ok |-> df.ok])
           /\ current' = chunk_end
    /\ UNCHANGED <<pc, window, writers, schedule>>
    /\ UNCHANGED ingestVars
    /\ UNCHANGED mergeVars
    /\ UNCHANGED cleanVars

\* After the loop: return when nothing was fetched, else write the file.
OmFinish ==
    /\ script = "openmeteo_recent"
    /\ pc = "loop"
    /\ ~Lt(current, window.end)
    /\ openmeteoRaw' = IF new_data = <<>> THEN openmeteoRaw
                       ELSE File(om_combine(openmeteoRaw.rows, Flatten(new_data)))
    /\ pc' = "done"
    /\ UNCHANGED <<window, current, chunks, new_data, writers, schedule>>
    /\ UNCHANGED <<script, airnowRaw, aqsRaw, purpleairRaw, hvoRaw,
                   hvoHistory, clock, last>>
    /\ UNCHANGED mergeVars
    /\ UNCHANGED cleanVars

InitLoops ==
    /\ script \in {"aqs_monthly", "openmeteo_recent"}
    /\ clock = IF script = "aqs_monthly" THEN Today ELSE OmNow
    /\ aqsRaw \in IF script = "aqs_monthly" THEN AqsArchives ELSE {NoFile}
    /\ openmeteoRaw \in IF script = "openmeteo_recent" THEN OmArchives
                        ELSE {NoFile}
    /\ airnowRaw = NoFile
    /\ purpleairRaw = NoFile
    /\ hvoRaw = NoFile
    /\ hvoHistory = NoFile
    /\ last = NoRun
    /\ interim = NoInterim
    /\ merged = NoFile
    /\ idx = <<>>
    /\ outcome = "idle"
    /\ runs = "none"
    /\ cleanLog = <<>>
    /\ cleanExit = "idle"
    /\ pc = "idle"
    /\ window = NoWindow
    /\ current = 0
    /\ chunks = <<>>
    /\ new_data = <<>>
    /\ writers = <<>>
    /\ schedule = <<>>

NextLoops ==
    \/ AqsWindow
    \/ AqsChunk
    \/ OmBegin
    \/ OmChunk
    \/ OmFinish

\* A script that was started runs on: its process reaches the loop and
\* takes the next iteration whenever the loop condition holds.
SpecLoops ==
    /\ InitLoops
    /\ [][NextLoops]_vars
    /\ WF_vars(AqsWindow)
    /\ WF_vars(AqsChunk)
    /\ WF_vars(OmBegin)
    /\ WF_vars(OmChunk)

\* ---- a cleaning run over interim files of an earlier run ----
\* An archive the cleaner of the source raises on: a required column is
\* missing.
BrokenRaw ==
    [airnow |-> LackingColumn(SampleRaw.airnow, "DateObserved"),
     aqs |-> LackingColumn(SampleRaw.aqs, "time_gmt"),
     purpleair |-> LackingColumn(SampleRaw.purpleair, "time_stamp"),
     hvo |-> LackingColumn(SampleRaw.hvo, "noticeId"),
     openmeteo |-> LackingColumn(SampleRaw.openmeteo, "datetime_utc")]

\* The archive of a source: missing, sound, or broken.
RunChoices(name) == {NoFile, SampleRaw[name], BrokenRaw[name]}

\* The interim files an earlier run wrote, when the archives held their
\* first row only.
PreviousInterim ==
    [name \in Range(Datasets) |->
        File(SubSeq(clean_file(name, SampleRaw[name]).df.rows, 1, 1))]

InitCleanAll ==
    /\ script = "clean_all"
    /\ airnowRaw \in RunChoices("airnow")
    /\ aqsRaw \in RunChoices("aqs")
    /\ purpleairRaw \in RunChoices("purpleair")
    /\ hvoRaw \in RunChoices("hvo")
    /\ openmeteoRaw \in RunChoices("openmeteo")
    /\ interim \in {NoInterim, PreviousInterim}
    /\ hvoHistory = NoFile
    /\ clock = 0
    /\ last = NoRun
    /\ merged = NoFile
    /\ idx = <<>>
    /\ outcome = "idle"
    /\ runs = "none"
    /\ cleanLog = <<>>
    /\ cleanExit = "idle"
    /\ pc = "idle"
    /\ window = NoWindow
    /\ current = 0
    /\ chunks = <<>>
    /\ new_data = <<>>
    /\ writers = <<>>
    /\ schedule = <<>>

NextCleanAll ==
    \/ ProcessDataset
    \/ CleanDone

SpecCleanAll == InitCleanAll /\ [][NextCleanAll]_vars


SpecIngest == InitIngest /\ [][NextIngest]_vars

SpecMerge == InitMerge /\ [][NextMerge]_vars


(***************************************************************************)
(* Properties of the ingestion runs (SpecIngest).                          *)
(***************************************************************************)
\* The archive the last run owns, after the run.
ArchiveOf(op) ==
    CASE op = "airnow_daily" -> airnowRaw
      [] op = "aqs_monthly" -> aqsRaw
      [] op = "purpleair_daily" -> purpleairRaw
      [] op = "hvo" -> hvoRaw
      [] op = "openmeteo_recent" -> openmeteoRaw
      [] op = "append_hvo" -> hvoHistory
      [] OTHER -> NoFile

\* The archive a run of op leaves, given the archive it meets and its input.
RunOf(op, file, input) ==
    CASE op = "airnow_daily" -> append_day(file, input)
      [] op = "aqs_monthly" -> append_unique(file, input.rows, input.sameTypes)
      [] op = "purpleair_daily" -> purpleair_daily(file, input)
      [] op = "hvo" -> hvo_pull(file, input.now, input.status)
      [] op = "openmeteo_recent" -> openmeteo_main(file, input.end, input.fetched)
      [] op = "append_hvo" -> append_hvo_data(input, file)
      [] OTHER -> file

IdempotentAfter(op) ==
    last.op = op => RunOf(op, ArchiveOf(op), last.input) = ArchiveOf(op)

\* C1: for each of the five ingestion paths, running the run a second time
\* with the same fetched rows leaves the archive as the first run left it.
C1_RerunLeavesArchive ==
    /\ IdempotentAfter("airnow_daily")
    /\ IdempotentAfter("aqs_monthly")
    /\ IdempotentAfter("purpleair_daily")
    /\ IdempotentAfter("hvo")
    /\ IdempotentAfter("openmeteo_recent")

\* The one path of C1 that is idempotent from every archive.
OpenmeteoRerunLeavesArchive == IdempotentAfter("openmeteo_recent")

\* append_unique is idempotent once the archive exists and the types agree.
AqsRerunLeavesArchive ==
    (last.op = "aqs_monthly" /\ last.before.exists /\ last.input.sameTypes)
        => RunOf("aqs_monthly", aqsRaw, last.input) = aqsRaw

NoDuplicateKey(rows, Key(_)) ==
    \A i, j \in DOMAIN rows : Key(rows[i]) = Key(rows[j]) => i = j

\* C2: after every call of append_unique, and after every run of the
\* Open-Meteo updater, the archive holds no two rows with the same dedup key,
\* whatever the archive was before (none included).
C2_NoDuplicateKeys ==
    /\ last.op = "aqs_monthly" => NoDuplicateKey(aqsRaw.rows, AqsKey)
    /\ last.op = "openmeteo_recent" => NoDuplicateKey(openmeteoRaw.rows, OmKey)

\* The Open-Meteo half of C2 alone.
OpenmeteoNoDuplicateKeys ==
    last.op = "openmeteo_recent" => NoDuplicateKey(openmeteoRaw.rows, OmKey)

\* The dedup key of each archive; the appenders never drop a row.
Same(r) == r

\* Every row of old is in new as it was, or an earlier row of old with the
\* same key is.
Retained(old, new, Key(_)) ==
    \A i \in DOMAIN old :
        \/ old[i] \in Range(new)
        \/ \E k \in 1..(i - 1) : Key(old[k]) = Key(old[i]) /\ old[k] \in Range(new)

RetainedBy(op, Key(_)) ==
    last.op = op =>
        /\ last.before.exists => ArchiveOf(op).exists
        /\ Retained(last.before.rows, ArchiveOf(op).rows, Key)

\* C3: a run never loses a persisted row: every row of the archive before the
\* run is in the archive after it with the same values, unless it was dropped
\* as the duplicate of an earlier persisted row of the same key, which stays.
C3_AppendOnly ==
    /\ RetainedBy("airnow_daily", Same)
    /\ RetainedBy("purpleair_daily", Same)
    /\ RetainedBy("hvo", Same)
    /\ RetainedBy("append_hvo", Same)
    /\ RetainedBy("aqs_monthly", AqsKey)
    /\ RetainedBy("openmeteo_recent", OmKey)

\* C3 witness: append_unique met an archive with rows and dropped a fetched
\* row as a duplicate.
C3_Witness ==
    /\ last.op = "aqs_monthly"
    /\ last.before.rows # <<>>
    /\ Len(aqsRaw.rows) < Len(last.before.rows) + Len(last.input.rows)

\* A fetched row corrects the archive: its key is persisted with another
\* measurement.
Corrects(f, old, Key(_), Val(_)) ==
    \E i \in DOMAIN old : Key(old[i]) = Key(f) /\ Val(old[i]) # Val(f)

AqsVal(r) == r.sample_measurement

OmVal(r) == r.temperature_2m

\* The rows of new under the key of f carry the measurement of f.
Captured(f, new, Key(_), Val(_)) ==
    /\ \E j \in DOMAIN new : new[j] = f
    /\ \A j \in DOMAIN new : Key(new[j]) = Key(f) => Val(new[j]) = Val(f)

\* C4: when a run fetches a row whose key is persisted with a different
\* measurement, the archive after the run holds the fetched measurement for
\* that key (AQS, and Open-Meteo when it writes).
C4_CorrectionsCaptured ==
    /\ last.op = "aqs_monthly" =>
          \A i \in DOMAIN last.input.rows :
              LET f == last.input.rows[i]
              IN  (/\ Corrects(f, last.before.rows, AqsKey, AqsVal)
                   /\ \A j \in DOMAIN last.input.rows :
                        AqsKey(last.input.rows[j]) = AqsKey(f) => j = i)
                  => Captured(f, aqsRaw.rows, AqsKey, AqsVal)
    /\ (last.op = "openmeteo_recent" /\ openmeteoRaw # last.before) =>
          \A i \in DOMAIN last.input.fetched.rows :
              LET f == last.input.fetched.rows[i]
              IN  (/\ Corrects(f, last.before.rows, OmKey, OmVal)
                   /\ \A j \in DOMAIN last.input.fetched.rows :
                        OmKey(last.input.fetched.rows[j]) = OmKey(f) => j = i)
                  => Captured(f, openmeteoRaw.rows, OmKey, OmVal)

\* What the code does instead: the persisted measurement stays for the key.
StaleValueStays ==
    last.op = "aqs_monthly" =>
        \A i \in DOMAIN last.before.rows :
            LET p == last.before.rows[i]
            IN  (\A k \in 1..(i - 1) : AqsKey(last.before.rows[k]) # AqsKey(p))
                    => p \in Range(aqsRaw.rows)


(***************************************************************************)
(* Properties of the merge run (SpecMerge).                                *)
(***************************************************************************)
HourOf(t) == t \div TicksPerHour

NonEmpty(src) == interim[src].rows # <<>>

SourceSet == {Sources[i] : i \in DOMAIN Sources}

\* Every timestamp of every interim file.
AllStamps ==
    UNION {{interim[src].rows[i].datetime_utc : i \in DOMAIN interim[src].rows}
           : src \in SourceSet} \ {NaT}

HourlySteps(g) == \A k \in 1..(Len(g) - 1) : g[k + 1] = g[k] + TicksPerHour

\* C5: when at least one frame is non-empty, build_hourly_index returns an
\* index that rises in steps of one hour from the least to the greatest
\* timestamp of the frames, whichever frames are the empty ones and whether
\* or not the bounds lie on the hour.
C5_GridSpansMinMax ==
    (outcome # "idle" /\ \E src \in SourceSet : NonEmpty(src)) =>
        /\ outcome = "ok"
        /\ idx # <<>>
        /\ HourlySteps(idx)
        /\ idx[1] = MinOf(AllStamps)
        /\ idx[Len(idx)] = MaxOf(AllStamps)

\* What holds of every index that is returned: hourly steps from the least
\* timestamp, ending within the last hour before the greatest.
GridFromMin ==
    outcome = "ok" =>
        /\ idx # <<>>
        /\ HourlySteps(idx)
        /\ idx[1] = MinOf(AllStamps)
        /\ idx[Len(idx)] <= MaxOf(AllStamps)
        /\ MaxOf(AllStamps) < idx[Len(idx)] + TicksPerHour

\* C6: the table merge_all returns has exactly one row per timestamp of the
\* index, in the order of the index.
C6_OneRowPerGridStamp ==
    outcome = "ok" =>
        /\ Len(merged.rows) = Len(idx)
        /\ \A k \in DOMAIN idx : merged.rows[k].datetime_utc = idx[k]

\* C6 witness: all five sources hold rows, one of them two rows for an hour
\* of the index, and the merge returned.
C6_Witness ==
    /\ outcome = "ok"
    /\ \A src \in SourceSet : NonEmpty(src)
    /\ \E i, j \in DOMAIN interim.aqs.rows :
        /\ i # j
        /\ interim.aqs.rows[i].datetime_utc = interim.aqs.rows[j].datetime_utc
        /\ \E k \in DOMAIN idx : idx[k] = interim.aqs.rows[i].datetime_utc


\* The value column of each source, in its interim file and in the merged
\* table.
CleanCol ==
    [aqs |-> "sample_measurement", airnow |-> "AQI", purpleair |-> "pm25_atm",
     openmeteo |-> "temperature_2m", hvo |-> "alertLevel"]

MergedCol ==
    [aqs |-> "pm25_aqs", airnow |-> "aqi_airnow", purpleair |-> "pm25_purpleair",
     openmeteo |-> "temperature_2m", hvo |-> "alertLevel"]

\* All the columns a source adds to the merged table.
MergedCols ==
    [src \in {"aqs", "airnow", "purpleair", "openmeteo", "hvo"} |->
        IF src = "hvo" THEN {"alertLevel", "colorCode"} ELSE {MergedCol[src]}]

\* The values the rows of a source hold for the hour h.
ValuesInHour(src, h) ==
    {interim[src].rows[i][CleanCol[src]] :
        i \in {j \in DOMAIN interim[src].rows :
                 /\ interim[src].rows[j].datetime_utc # NaT
                 /\ HourOf(interim[src].rows[j].datetime_utc) = h}}

\* C7: every cleaned row with a timestamp is aligned by its hour: the merged
\* row of that hour carries a value of the source from that hour; a merged
\* row of an hour the source has no row for carries a missing value.
C7_AlignedByHour ==
    outcome = "ok" =>
        \A src \in SourceSet : NonEmpty(src) =>
            /\ \A i \in DOMAIN interim[src].rows :
                 LET t == interim[src].rows[i].datetime_utc
                 IN  t # NaT =>
                       \E k \in DOMAIN merged.rows :
                         /\ HourOf(merged.rows[k].datetime_utc) = HourOf(t)
                         /\ merged.rows[k][MergedCol[src]]
                               \in ValuesInHour(src, HourOf(t))
            /\ \A k \in DOMAIN merged.rows :
                 ValuesInHour(src, HourOf(merged.rows[k].datetime_utc)) = {}
                    => merged.rows[k][MergedCol[src]] = NaN

\* What the join does: it matches on the timestamp itself.
AlignedByStamp ==
    outcome = "ok" =>
        \A src \in SourceSet : NonEmpty(src) =>
            \A k \in DOMAIN merged.rows :
                LET hits == {i \in DOMAIN interim[src].rows :
                               interim[src].rows[i].datetime_utc
                                 = merged.rows[k].datetime_utc}
                IN  merged.rows[k][MergedCol[src]] =
                        IF hits = {} THEN NaN
                        ELSE interim[src].rows[MinOf(hits)][CleanCol[src]]

HoursOf(src) ==
    {HourOf(interim[src].rows[i].datetime_utc) : i \in DOMAIN interim[src].rows}

\* The scenario of C8: AQS at hours 0, 1, 3, AirNow at hours 1, 2, the other
\* three sources without rows.
Scenario ==
    /\ HoursOf("aqs") = {0, 1, 3}
    /\ HoursOf("airnow") = {1, 2}
    /\ \A src \in {"purpleair", "openmeteo", "hvo"} : ~NonEmpty(src)

ScenarioResult ==
    /\ outcome = "ok"
    /\ Len(merged.rows) = 4
    /\ \A k \in DOMAIN merged.rows :
        /\ merged.rows[k].datetime_utc = (k - 1) * TicksPerHour
        /\ (merged.rows[k].pm25_aqs # NaN) <=> (k \in {1, 2, 4})
        /\ (merged.rows[k].aqi_airnow # NaN) <=> (k \in {2, 3})

\* C8: in the scenario, with the other three sources empty or absent,
\* merge_all returns the rows of hours 0..3, pm25_aqs present at hours 0, 1, 3
\* and aqi_airnow at hours 1, 2.
C8_Scenario == (outcome # "idle" /\ Scenario) => ScenarioResult

\* The scenario with the three files present and holding a header only.
ScenarioHeaderOnly ==
    (/\ outcome # "idle"
     /\ Scenario
     /\ \A src \in {"purpleair", "openmeteo", "hvo"} : interim[src].exists)
        => ScenarioResult

\* C9: a source without rows (file missing, or header only) is a no-op: when
\* another source has rows the merge completes, the index starts at the least
\* timestamp of the sources with rows, the table has one row per index entry
\* and the columns of the sources with rows only.
C9_EmptySourceIsNoOp ==
    (outcome # "idle" /\ \E src \in SourceSet : NonEmpty(src)) =>
        /\ outcome = "ok"
        /\ idx # <<>>
        /\ idx[1] = MinOf(AllStamps)
        /\ Len(merged.rows) = Len(idx)
        /\ \A k \in DOMAIN merged.rows :
             DOMAIN merged.rows[k] =
                {"datetime_utc"} \cup
                    UNION {MergedCols[src] : src \in {x \in SourceSet : NonEmpty(x)}}

\* The empty sources the merge does survive: files that exist, behind a
\* first frame (AQS) that has rows.
HeaderOnlyBehindAqs ==
    (/\ outcome # "idle"
     /\ NonEmpty("aqs")
     /\ \A src \in SourceSet : interim[src].exists)
        => /\ outcome = "ok"
           /\ \A k \in DOMAIN merged.rows :
                DOMAIN merged.rows[k] =
                   {"datetime_utc"} \cup
                    UNION {MergedCols[src] : src \in {x \in SourceSet : NonEmpty(x)}}

\* C10: when all five sources are without rows the merge run fails: no index
\* is returned and no processed file is written; an index that is returned
\* is never empty.
C10_AllEmptyFails ==
    /\ (outcome # "idle" /\ \A src \in SourceSet : ~NonEmpty(src)) =>
          /\ outcome \in {"KeyError", "ValueError"}
          /\ idx = <<>>
          /\ ~merged.exists
    /\ outcome = "ok" => idx # <<>>

\* C10 witness: the merge ran on five header-only files and raised.
C10_Witness ==
    /\ outcome = "ValueError"
    /\ \A src \in SourceSet : interim[src] = File(<<>>)

\* C11: running merge_all and save a second time on the same interim files
\* leaves the processed file as the first run left it: the same rows with the
\* same columns in the same order, written anew and not appended.
C11_MergeTwiceSameFile ==
    (last.op = "merge_all" /\ runs = "twice") =>
        /\ merged = last.before
        /\ outcome = "ok" => (merged.exists /\ Len(merged.rows) = Len(idx))

\* C11 witness: both runs completed on five sources with rows.
C11_Witness ==
    /\ runs = "twice"
    /\ outcome = "ok"
    /\ last.before.exists
    /\ Len(merged.rows) >= 2
    /\ \A src \in SourceSet : NonEmpty(src)


(***************************************************************************)
(* Properties of the cleaning run (SpecClean).                             *)
(***************************************************************************)
\* What process_dataset printed for the dataset, "" before its turn.
Printed(name) ==
    IF \E i \in DOMAIN cleanLog : cleanLog[i].name = name
    THEN cleanLog[CHOOSE i \in DOMAIN cleanLog : cleanLog[i].name = name].printed
    ELSE ""

\* The cleaner of the dataset returned and its frame was written.
Saved(name) == Printed(name) = "Saved"

\* The rows the cleaner of the dataset returned.
Cleaned(name) == interim[name].rows

\* The identity key of a cleaned row.
IdentityKey(name, r) ==
    CASE name = "airnow" -> <<r.ReportingArea, r.ParameterName>>
      [] name = "aqs" -> <<r.site_number>>
      [] name = "purpleair" -> <<r.sensor_index>>
      [] name = "hvo" -> <<r.noticeId>>
      [] name = "openmeteo" -> <<>>

UniqueStampAndKey(name) ==
    Saved(name) =>
        \A i, j \in DOMAIN Cleaned(name) :
            (/\ Cleaned(name)[i].datetime_utc = Cleaned(name)[j].datetime_utc
             /\ IdentityKey(name, Cleaned(name)[i]) = IdentityKey(name, Cleaned(name)[j]))
                => i = j

\* C12: the frame each of the five cleaners returns holds no two rows with
\* the same timestamp (hour-floored for AQS and PurpleAir) and identity key.
C12_NoDuplicateStampAndKey ==
    \A name \in Range(Datasets) : UniqueStampAndKey(name)

\* The four cleaners of C12 that dedup on the timestamp they return.
UniqueBesidesAqs ==
    \A name \in Range(Datasets) \ {"aqs"} : UniqueStampAndKey(name)

\* C13: the rows each of the five cleaners returns are in ascending order of
\* the returned timestamp, rows without a timestamp after all others.
C13_CleanedAscending ==
    \A name \in Range(Datasets) :
        Saved(name) =>
            \A i, j \in DOMAIN Cleaned(name) :
                i < j => ~Before(Cleaned(name)[j].datetime_utc,
                                 Cleaned(name)[i].datetime_utc)

\* C13 witness: clean_aqs returned both rows of an archive whose second row
\* is in an earlier hour than its first.
C13_Witness ==
    /\ script = "aqs"
    /\ Saved("aqs")
    /\ Len(aqsRaw.rows) = 2
    /\ Len(Cleaned("aqs")) = 2
    /\ aqsRaw.rows[2].time_gmt >= 0
    /\ floor_h(aqsRaw.rows[2].time_gmt) < floor_h(aqsRaw.rows[1].time_gmt)

\* Two cells hold the same value; a missing cell holds none.
SameValue(a, b) == a # NaN /\ b # NaN /\ a = b

\* C14: in the frame clean_hvo returns (one row per notice, ascending in
\* time) alert_change of a row is TRUE iff the row is the first or its
\* alertLevel is not the value of the row before; color_change likewise on
\* colorCode.
C14_ChangeFlags ==
    Saved("hvo") =>
        LET r == Cleaned("hvo")
        IN  /\ \A i, j \in DOMAIN r : r[i].noticeId = r[j].noticeId => i = j
            /\ \A i \in DOMAIN r :
                 /\ r[i].alert_change <=>
                       (i = 1 \/ ~SameValue(r[i].alertLevel, r[i - 1].alertLevel))
                 /\ r[i].color_change <=>
                       (i = 1 \/ ~SameValue(r[i].colorCode, r[i - 1].colorCode))

\* C14 witness: two notices were archived later notice first, with the same
\* alert level and different colour codes, and clean_hvo returned them.
C14_Witness ==
    /\ script = "hvo"
    /\ Saved("hvo")
    /\ Len(hvoRaw.rows) = 2
    /\ hvoRaw.rows[1].timestamp_utc > hvoRaw.rows[2].timestamp_utc
    /\ hvoRaw.rows[2].timestamp_utc >= 0
    /\ Len(Cleaned("hvo")) = 2
    /\ Cleaned("hvo")[1].alert_change
    /\ ~Cleaned("hvo")[2].alert_change
    /\ Cleaned("hvo")[2].color_change

\* A cell holds a value.
HasValue(r, c) == c \in DOMAIN r /\ r[c] > 0

AllCoreMissing(r) == \A c \in CoreWeather : ~HasValue(r, c)

\* A raw Open-Meteo row with its cells parsed: what is no time is NaT, what
\* is no number is missing.
Parsed(r) ==
    [c \in DOMAIN r |->
        IF r[c] < 0 THEN (IF c = "datetime_utc" THEN NaT ELSE NaN) ELSE r[c]]

InOutput(r) == Parsed(r) \in Range(Cleaned("openmeteo"))

\* C15 as stated: clean_openmeteo drops a row iff every core field of the
\* row is missing after numeric coercion.
C15_DropIffAllCoreMissing ==
    Saved("openmeteo") =>
        \A i \in DOMAIN openmeteoRaw.rows :
            (~InOutput(openmeteoRaw.rows[i])) <=> AllCoreMissing(openmeteoRaw.rows[i])

\* C15 amended: a row whose core fields are all missing is dropped; a row
\* with a core value is returned unless an earlier row with a core value has
\* its timestamp, and then that row is returned; whatever rain holds.
C15_DropRule ==
    Saved("openmeteo") =>
        LET raw == openmeteoRaw.rows
        IN  /\ \A i \in DOMAIN raw :
                 IF AllCoreMissing(raw[i]) THEN ~InOutput(raw[i])
                 ELSE \E k \in 1..i :
                        /\ ~AllCoreMissing(raw[k])
                        /\ Parsed(raw[k]).datetime_utc = Parsed(raw[i]).datetime_utc
                        /\ InOutput(raw[k])
                        /\ \A j \in 1..(k - 1) :
                             ~AllCoreMissing(raw[j]) =>
                                Parsed(raw[j]).datetime_utc # Parsed(raw[k]).datetime_utc
            /\ \A k \in DOMAIN Cleaned("openmeteo") :
                 \E i \in DOMAIN raw : Cleaned("openmeteo")[k] = Parsed(raw[i])

\* C15 witness: of two rows the one with rain alone was dropped and the one
\* with a core value and no rain was returned.
C15_Witness ==
    /\ script = "openmeteo"
    /\ Saved("openmeteo")
    /\ Len(openmeteoRaw.rows) = 2
    /\ AllCoreMissing(openmeteoRaw.rows[1])
    /\ HasValue(openmeteoRaw.rows[1], "rain")
    /\ ~AllCoreMissing(openmeteoRaw.rows[2])
    /\ ~HasValue(openmeteoRaw.rows[2], "rain")
    /\ Cleaned("openmeteo") = <<Parsed(openmeteoRaw.rows[2])>>

\* The columns a cleaner cannot do without.
StructurallyComplete(name, file) ==
    CASE name = "airnow" ->
           {"DateObserved", "HourObserved", "ReportingArea", "ParameterName"}
              \subseteq file.columns
      [] name = "aqs" ->
           ({"date_gmt", "time_gmt", "qualifier"} \cup AqsKeyColumns)
              \subseteq file.columns
      [] name = "purpleair" ->
           /\ {"time_stamp", "last_seen"} \cap file.columns # {}
           /\ "sensor_index" \in file.columns
      [] name = "hvo" ->
           {"timestamp_utc", "noticeId", "alertLevel", "colorCode"}
              \subseteq file.columns
      [] name = "openmeteo" -> "datetime_utc" \in file.columns

\* C16: a cleaner whose input lacks a structurally required column raises
\* and returns no frame; none goes on with a default in its place.
C16_StructuralErrorsAbort ==
    \A name \in Range(Datasets) :
        (/\ Printed(name) # ""
         /\ RawOf(name).exists
         /\ ~StructurallyComplete(name, RawOf(name)))
            => (~Saved(name) /\ interim[name] = NoFile)

\* What holds: every cleaner raises on a missing column, clean_airnow unless
\* it takes the file for one without a header.
AbortsUnlessTakenForHeaderless ==
    \A name \in Range(Datasets) :
        (/\ Printed(name) # ""
         /\ RawOf(name).exists
         /\ ~StructurallyComplete(name, RawOf(name))
         /\ name = "airnow" =>
               Range(airnowRaw.order) \cap Range(AirnowHeader) # {})
            => (~Saved(name) /\ interim[name] = NoFile)

\* The timestamp cells of a raw row do not parse.
BadStamp(name, r) ==
    CASE name = "airnow" -> r.DateObserved = Unparsable \/ r.HourObserved = Unparsable
      [] name = "aqs" -> r.date_gmt = Unparsable \/ r.time_gmt = Unparsable
      [] name = "purpleair" ->
           IF "time_stamp" \in DOMAIN r THEN r.time_stamp = Unparsable
           ELSE r.last_seen = Unparsable
      [] name = "hvo" -> r.timestamp_utc = Unparsable
      [] name = "openmeteo" -> r.datetime_utc = Unparsable

\* The cleaner returned, and every raw row whose timestamp does not parse is
\* in the frame without a timestamp (for HVO: its notice is in the frame;
\* for Open-Meteo: unless all its core fields are missing).
Tolerated(name) ==
    (/\ Printed(name) # ""
     /\ RawOf(name).exists
     /\ StructurallyComplete(name, RawOf(name))
     /\ RawOf(name).rows # <<>>)
        => /\ Saved(name)
           /\ \A i \in DOMAIN RawOf(name).rows :
                LET r == RawOf(name).rows[i]
                IN  (/\ BadStamp(name, r)
                     /\ name = "openmeteo" => ~AllCoreMissing(r))
                       => \E k \in DOMAIN Cleaned(name) :
                            /\ IdentityKey(name, Cleaned(name)[k]) = IdentityKey(name, r)
                            /\ name # "hvo" => Cleaned(name)[k].datetime_utc = NaT

\* C17: no cleaner raises on a value that does not parse: the row is kept,
\* the value missing, and the other rows are cleaned as usual.
C17_ValueErrorsTolerated == \A name \in Range(Datasets) : Tolerated(name)

\* The four cleaners that coerce.
ToleratedBesidesPurpleair ==
    \A name \in Range(Datasets) \ {"purpleair"} : Tolerated(name)

\* C18: when a cleaner raised during the run, the run does not end as a
\* success.
C18_CleanerErrorSurfaces ==
    cleanExit = "success" =>
        \A i \in DOMAIN cleanLog : cleanLog[i].printed = "Saved"

\* The archive holds one pull per pull time, every pull time parses, and a
\* notice has one alert level and colour code in all its pulls.
HourlyPulls ==
    \A i, j \in DOMAIN hvoRaw.rows :
        /\ hvoRaw.rows[i].timestamp_utc >= 0
        /\ hvoRaw.rows[i].timestamp_utc = hvoRaw.rows[j].timestamp_utc => i = j
        /\ hvoRaw.rows[i].noticeId = hvoRaw.rows[j].noticeId =>
              /\ hvoRaw.rows[i].alertLevel = hvoRaw.rows[j].alertLevel
              /\ hvoRaw.rows[i].colorCode = hvoRaw.rows[j].colorCode

\* The merged row of the timestamp t carries the level and code of r.
Carries(t, r) ==
    \E k \in DOMAIN merged.rows :
        /\ merged.rows[k].datetime_utc = t
        /\ "alertLevel" \in DOMAIN merged.rows[k]
        /\ merged.rows[k].alertLevel = r.alertLevel
        /\ merged.rows[k].colorCode = r.colorCode

\* C19: for every hour of the index at which the HVO archive holds a pull of
\* a notice, the merged row of that hour carries the notice's alertLevel and
\* colorCode.
C19_NoticeAtEveryPulledHour ==
    (Saved("hvo") /\ outcome = "ok" /\ HourlyPulls) =>
        \A i \in DOMAIN hvoRaw.rows :
            LET r == hvoRaw.rows[i]
            IN  (\E k \in DOMAIN idx : idx[k] = r.timestamp_utc)
                    => Carries(r.timestamp_utc, r)

\* What holds: the first archived pull of a notice reaches the merged table.
FirstPullOfNoticeCarried ==
    (Saved("hvo") /\ outcome = "ok" /\ HourlyPulls) =>
        \A i \in DOMAIN hvoRaw.rows :
            LET r == hvoRaw.rows[i]
            IN  (/\ \E k \in DOMAIN idx : idx[k] = r.timestamp_utc
                 /\ \A j \in 1..(i - 1) : hvoRaw.rows[j].noticeId # r.noticeId)
                    => Carries(r.timestamp_utc, r)

\* The rows of the cleaned AirNow frame with a timestamp.
StampedAirnow ==
    Pick(Cleaned("airnow"),
         {k \in DOMAIN Cleaned("airnow") : Cleaned("airnow")[k].datetime_utc # NaT})

\* C20: clean_airnow returns a row whose date and hour do not combine to a
\* timestamp, with a null timestamp, at most one per reporting area and
\* pollutant; the merge run ends, and builds its index, as it does without
\* these rows, and the merged table has a row per index entry and AirNow
\* values of rows with a timestamp only.
C20_NullStampKeptThenIgnored ==
    (Saved("airnow") /\ airnowRaw.order = AirnowHeader) =>
        LET out == Cleaned("airnow")
            nat == {k \in DOMAIN out : out[k].datetime_utc = NaT}
            ref == merge_all([interim EXCEPT !.airnow = File(StampedAirnow)])
        IN  /\ \A i \in DOMAIN airnowRaw.rows :
                 BadStamp("airnow", airnowRaw.rows[i]) =>
                    \E k \in nat : IdentityKey("airnow", out[k])
                                      = IdentityKey("airnow", airnowRaw.rows[i])
            /\ \A j, k \in nat :
                 IdentityKey("airnow", out[j]) = IdentityKey("airnow", out[k])
                    => j = k
            /\ (runs # "none" /\ nat # {}) =>
                 /\ outcome = IF ref.ok THEN "ok" ELSE ref.error
                 /\ idx = ref.idx
                 /\ outcome = "ok" =>
                      /\ Len(merged.rows) = Len(idx)
                      /\ \A k \in DOMAIN merged.rows :
                           /\ merged.rows[k].datetime_utc # NaT
                           /\ merged.rows[k].aqi_airnow \in
                                 {NaN} \cup
                                 {StampedAirnow[j].AQI :
                                    j \in {x \in DOMAIN StampedAirnow :
                                             StampedAirnow[x].datetime_utc
                                               = merged.rows[k].datetime_utc}}

\* C20 witness: the archive held a row that does not parse and one that
\* does, both were returned, and the merge put the value of the second into
\* the table.
C20_Witness ==
    /\ script = "airnow"
    /\ Saved("airnow")
    /\ airnowRaw.order = AirnowHeader
    /\ Len(airnowRaw.rows) = 2
    /\ BadStamp("airnow", airnowRaw.rows[1])
    /\ ~BadStamp("airnow", airnowRaw.rows[2])
    /\ Len(Cleaned("airnow")) = 2
    /\ Cleaned("airnow")[2].datetime_utc = NaT
    /\ outcome = "ok"
    /\ \E k \in DOMAIN merged.rows :
          merged.rows[k].aqi_airnow = airnowRaw.rows[2].AQI

(***************************************************************************)
(* Properties of the HVO status log (SpecIngest).                          *)
(***************************************************************************)
\* C21: over any sequence of HVO pulls, each pull appends exactly one record
\* to the archive, leaving the records before it as they were, and the
\* record's new_notice flag is TRUE iff its noticeId differs from the
\* noticeId of the last record the archive held before the pull; it is TRUE
\* on the first pull, when no archive exists.  So in the archive every
\* record but the first is flagged iff its noticeId is not the one of the
\* record before it.
C21_OneRecordFlaggedOnChange ==
    /\ hvoRaw.exists <=> hvoRaw.rows # <<>>
    /\ \A i \in DOMAIN hvoRaw.rows :
          hvoRaw.rows[i].new_notice
             <=> (i = 1 \/ hvoRaw.rows[i].noticeId # hvoRaw.rows[i - 1].noticeId)
    /\ last.op = "hvo" =>
          /\ Len(hvoRaw.rows) = Len(last.before.rows) + 1
          /\ SubSeq(hvoRaw.rows, 1, Len(last.before.rows)) = last.before.rows
          /\ hvoRaw.rows[Len(hvoRaw.rows)].noticeId = last.input.status.noticeId
          /\ hvoRaw.rows[Len(hvoRaw.rows)].timestamp_utc = last.input.now
          /\ ~last.before.exists => hvoRaw.rows[1].new_notice

\* C21 witness: three pulls; the second repeated the notice of the first and
\* was not flagged, the third brought the first notice back after another
\* one was archived and was flagged.
C21_Witness ==
    /\ last.op = "hvo"
    /\ Len(hvoRaw.rows) = 4
    /\ hvoRaw.rows[1].noticeId = "n1"
    /\ hvoRaw.rows[2].noticeId = "n1"
    /\ hvoRaw.rows[3].noticeId = "n2"
    /\ hvoRaw.rows[4].noticeId = "n1"
    /\ ~hvoRaw.rows[2].new_notice
    /\ hvoRaw.rows[3].new_notice
    /\ hvoRaw.rows[4].new_notice

(***************************************************************************)
(* Properties of two concurrent append_unique runs (SpecRace).             *)
(***************************************************************************)
BothDone == \A w \in Writers : writers[w].pc = "done"

\* One run read and wrote before the other read.
Serialized == Len(schedule) >= 2 /\ schedule[2][2] = "write"

\* Both runs read the archive before either wrote it.
Interleaved == Len(schedule) >= 2 /\ schedule[2][2] = "read"

\* The run that wrote first.
FirstWriter == schedule[CHOOSE k \in DOMAIN schedule : schedule[k][2] = "write"
                                   /\ \A j \in 1..(k - 1) : schedule[j][2] = "read"][1]

KeysOf(file) == {AqsKey(file.rows[j]) : j \in DOMAIN file.rows}

\* The rows of the batch of w that are new to the archive w read: their key
\* is not in it, and no earlier row of the batch has it.
NewRows(w) ==
    LET rows == writers[w].rows
        had == KeysOf(writers[w].df_exist)
    IN  {rows[i] : i \in {n \in DOMAIN rows :
                             /\ AqsKey(rows[n]) \notin had
                             /\ \A j \in 1..(n - 1) :
                                   AqsKey(rows[j]) # AqsKey(rows[n])}}

\* C22: append_unique does not arbitrate concurrent writers.  When two runs
\* against one archive are serialized, the final archive holds the new rows
\* of both batches, and every key the archive held before; a new row is
\* missing from the final archive only when both runs read the archive
\* before either wrote it (C22_Witness shows that this happens: the rows the
\* first writer added are lost).
C22_SerializedKeepsBoth ==
    BothDone =>
      /\ Serialized \/ Interleaved
      /\ Serialized =>
            /\ \A w \in Writers : NewRows(w) \subseteq Range(aqsRaw.rows)
            /\ \A w \in Writers :
                  KeysOf(writers[w].df_exist) \subseteq KeysOf(aqsRaw)
      /\ (\E w \in Writers : ~(NewRows(w) \subseteq Range(aqsRaw.rows)))
            => Interleaved

\* C22 witness: both runs read the archive before either wrote, and the final
\* archive lacks a row the first writer added.
C22_Witness ==
    /\ BothDone
    /\ Interleaved
    /\ NewRows(FirstWriter) # {}
    /\ ~(NewRows(FirstWriter) \subseteq Range(aqsRaw.rows))
    /\ \A w \in Writers : writers[w].df_exist = File(<<[key |-> "k1",
                                                   sample_measurement |-> 10]>>)

(***************************************************************************)
(* Properties of the merged columns (SpecMerge).                           *)
(***************************************************************************)
\* The median of a non-empty set of numbers: the middle one, or the mean of
\* the two in the middle.
Median(V) ==
    LET n == Cardinality(V)
        asc == Ascending(V)
    IN  IF n % 2 = 1 THEN asc[(n + 1) \div 2]
        ELSE (asc[n \div 2] + asc[(n \div 2) + 1]) \div 2

\* The PurpleAir readings of the hour of the timestamp t, one per sensor.
ReadingsAt(t) ==
    {interim.purpleair.rows[i].pm25_atm :
        i \in {j \in DOMAIN interim.purpleair.rows :
                 interim.purpleair.rows[j].datetime_utc = t}}

\* The columns of the merged table that hold what PurpleAir contributed.
PurpleairColumns(row) ==
    (DOMAIN row) \ ({"datetime_utc"} \cup MergedCols.aqs \cup MergedCols.airnow
                      \cup MergedCols.openmeteo \cup MergedCols.hvo)

\* C23: in the merged table the PurpleAir contribution at each grid hour is
\* the median of pm2.5_atm over all sensors reporting in that hour, and a
\* column beside it holds the count of the sensors reporting in that hour.
C23_PurpleairHourlyMedian ==
    (outcome = "ok" /\ NonEmpty("purpleair")) =>
        \A k \in DOMAIN merged.rows :
            LET V == ReadingsAt(merged.rows[k].datetime_utc)
            IN  V # {} =>
                  /\ merged.rows[k].pm25_purpleair = Median(V)
                  /\ \E c \in PurpleairColumns(merged.rows[k]) \ {"pm25_purpleair"} :
                        merged.rows[k][c] = Cardinality(V)

\* What the merge does: the reading of the sensor that comes first in the
\* cleaned file for that hour, and the PurpleAir value column alone.
PurpleairFirstSensor ==
    (outcome = "ok" /\ NonEmpty("purpleair")) =>
        \A k \in DOMAIN merged.rows :
            LET hits == {i \in DOMAIN interim.purpleair.rows :
                           interim.purpleair.rows[i].datetime_utc
                             = merged.rows[k].datetime_utc}
            IN  /\ PurpleairColumns(merged.rows[k]) = {"pm25_purpleair"}
                /\ hits # {} =>
                      merged.rows[k].pm25_purpleair
                         = interim.purpleair.rows[MinOf(hits)].pm25_atm

\* C24: aqi_airnow is taken from PM2.5 AirNow rows only: for every grid hour
\* the aqi_airnow value of the merged table is the AQI of an AirNow row of
\* that hour whose ParameterName is PM2.5, never the AQI of another
\* pollutant reported for the same hour.
C24_AqiOfPm25Only ==
    (outcome = "ok" /\ NonEmpty("airnow")) =>
        \A k \in DOMAIN merged.rows :
            merged.rows[k].aqi_airnow # NaN =>
                \E i \in DOMAIN interim.airnow.rows :
                    /\ interim.airnow.rows[i].datetime_utc
                          = merged.rows[k].datetime_utc
                    /\ interim.airnow.rows[i].ParameterName = "PM2.5"
                    /\ interim.airnow.rows[i].AQI = merged.rows[k].aqi_airnow

\* What the merge does: the AQI of the AirNow row that comes first in the
\* cleaned file for that hour, whatever its pollutant.
AqiOfFirstRow ==
    (outcome = "ok" /\ NonEmpty("airnow")) =>
        \A k \in DOMAIN merged.rows :
            LET hits == {i \in DOMAIN interim.airnow.rows :
                           interim.airnow.rows[i].datetime_utc
                             = merged.rows[k].datetime_utc}
            IN  merged.rows[k].aqi_airnow =
                    IF hits = {} THEN NaN
                    ELSE interim.airnow.rows[MinOf(hits)].AQI

(***************************************************************************)
(* Properties of the chunk loops (SpecLoops).                              *)
(***************************************************************************)
\* The days a chunk requests.
DaysOf(chunk) == chunk.bdate..chunk.edate

\* The window and the chunks of a run of aqs_monthly.py, at every step.
C25_Chunks ==
    (script = "aqs_monthly" /\ pc # "idle") =>
        /\ window.end = clock - AqsLagDays
        /\ window.start = IF last.before.exists
                          THEN latest_of(last.before) - OVERLAP_DAYS
                          ELSE window.end - AqsYearDays
        /\ window.start > window.end =>
              /\ pc = "done"
              /\ chunks = <<>>
              /\ aqsRaw = last.before
        /\ \A i \in DOMAIN chunks :
              /\ chunks[i].bdate <= chunks[i].edate
              /\ Cardinality(DaysOf(chunks[i])) <= CHUNK_DAYS
              /\ chunks[i].edate <= window.end
              /\ chunks[i].bdate = IF i = 1 THEN window.start
                                   ELSE chunks[i - 1].edate + 1
        /\ pc = "loop" => current <= window.end
        /\ (pc = "done" /\ window.start <= window.end) =>
              \A d \in window.start..window.end :
                  Cardinality({i \in DOMAIN chunks : d \in DaysOf(chunks[i])}) = 1

\* C25: in the AQS monthly updater the chunk loop terminates for every
\* start_date <= end_date; the chunks requested are in ascending order, each
\* spans at most 30 days, consecutive chunks are adjacent without overlap,
\* and together they cover every date from start_date to end_date exactly
\* once.  start_date is 120 days before the latest persisted local date when
\* an archive exists and 365 days before end_date otherwise; when
\* start_date > end_date nothing is fetched and the archive is unchanged.
C25_ChunkLoopCoversWindow ==
    /\ []C25_Chunks
    /\ <>(script = "aqs_monthly" => pc = "done")

\* C25 witness: a run on an archive ended after three chunks, the last one
\* shorter than CHUNK_DAYS, and added a row to the archive.
C25_Witness ==
    /\ script = "aqs_monthly"
    /\ pc = "done"
    /\ last.before.exists
    /\ Len(chunks) = 3
    /\ Cardinality(DaysOf(chunks[1])) = CHUNK_DAYS
    /\ Cardinality(DaysOf(chunks[3])) < CHUNK_DAYS
    /\ chunks[3].edate = window.end
    /\ Len(aqsRaw.rows) > Len(last.before.rows)

TimesOf(file) == {file.rows[i].t : i \in DOMAIN file.rows}

\* The archive of a run of openmeteo_recent.py, at every step.
C26_Archive ==
    (script = "openmeteo_recent" /\ pc # "idle") =>
        LET before == last.before
            late == /\ before.exists
                    /\ window.start # NaT
                    /\ window.start >= window.end
            noneFetched == \A i \in DOMAIN chunks : ~chunks[i].ok
        IN  /\ pc = "loop" => openmeteoRaw = before
            /\ (~before.exists \/ late) => (pc = "done" /\ chunks = <<>>)
            /\ pc = "done" =>
                 IF ~before.exists \/ late \/ noneFetched
                 THEN openmeteoRaw = before
                 ELSE /\ openmeteoRaw.exists
                      /\ TimesOf(before) \subseteq TimesOf(openmeteoRaw)
                      /\ \A i \in 1..(Len(openmeteoRaw.rows) - 1) :
                            openmeteoRaw.rows[i].t < openmeteoRaw.rows[i + 1].t

\* The run has returned, or its while condition (current < end_date) is
\* false and the lines after the loop are what is left.
OmLoopOver ==
    \/ pc = "done"
    \/ pc = "loop" /\ ~Lt(current, window.end)

\* C26: the Open-Meteo updater leaves the persisted archive unchanged (and
\* creates none) when the historical file does not exist, when the hour
\* after the last persisted timestamp is not earlier than the lag-adjusted
\* end date, or when every chunk fetch fails; in every other case its chunk
\* loop terminates and the archive it writes contains all previously
\* persisted timestamps, is sorted ascending by timestamp and has one row
\* per timestamp.
C26_UpdaterFrame ==
    /\ []C26_Archive
    /\ <>(script = "openmeteo_recent" => OmLoopOver)

\* C26 witness: a run ended after two chunks or more, one of which failed;
\* it wrote the archive, and a fetched hour that was persisted already or
\* came twice was dropped.
C26_Witness ==
    /\ script = "openmeteo_recent"
    /\ pc = "done"
    /\ Len(chunks) >= 2
    /\ \E i \in DOMAIN chunks : ~chunks[i].ok
    /\ \E i \in DOMAIN chunks : chunks[i].ok
    /\ openmeteoRaw # last.before
    /\ Len(openmeteoRaw.rows) > Len(last.before.rows)
    /\ Len(openmeteoRaw.rows)
          < Len(last.before.rows) + Len(Flatten(new_data))

(***************************************************************************)
(* Properties of the cleaning run over all five sources (SpecCleanAll).    *)
(***************************************************************************)
\* The run at every step: the datasets are taken in the fixed order, a run
\* that is over has taken all five, and every dataset whose archive was read
\* and cleaned without an error was saved.
C27_AllTaken ==
    /\ \A i \in DOMAIN cleanLog :
          /\ cleanLog[i].name
                = <<"airnow", "aqs", "purpleair", "hvo", "openmeteo">>[i]
          /\ LET out == clean_file(cleanLog[i].name, RawOf(cleanLog[i].name))
             IN  /\ (cleanLog[i].printed = "Saved") <=> out.ok
                 /\ out.ok => interim[cleanLog[i].name] = File(out.df.rows)
    /\ cleanExit \in {"idle", "running", "success"}
    /\ cleanExit = "success" => Len(cleanLog) = 5
    /\ cleanExit = "idle" => cleanLog = <<>>

\* One step of the run: an interim file changes only when its own dataset is
\* the one processed and reading and cleaning it raised nothing.
C27_OnlyOwnFileOnSuccess ==
    \A name \in Range(Datasets) :
        interim'[name] # interim[name] =>
            /\ Len(cleanLog') = Len(cleanLog) + 1
            /\ cleanLog'[Len(cleanLog')].name = name
            /\ cleanLog'[Len(cleanLog')].printed = "Saved"

\* C27: in the cleaning run the five sources are processed in the fixed
\* order AirNow, AQS, PurpleAir, HVO, Open-Meteo, and a failure while
\* reading or cleaning one source neither prevents the later sources from
\* being cleaned and saved nor modifies the failed source's previously
\* written interim file or any other source's interim file.
C27_FailureIsLocal ==
    /\ []C27_AllTaken
    /\ [][C27_OnlyOwnFileOnSuccess]_vars

\* C27 witness: the AQS archive could not be cleaned; the run went on, saved
\* PurpleAir, HVO and Open-Meteo anew and ended, and the AQS file of the
\* earlier run is as it was.
C27_Witness ==
    /\ cleanExit = "success"
    /\ Printed("airnow") = "Saved"
    /\ Printed("aqs") = "KeyError"
    /\ interim.aqs = PreviousInterim.aqs
    /\ \A name \in {"purpleair", "hvo", "openmeteo"} :
          /\ Saved(name)
          /\ interim[name] # PreviousInterim[name]

(***************************************************************************)
(* Properties of the AirNow header reconstruction (SpecClean).             *)
(***************************************************************************)
\* The archive was written without a header line: read_csv took its first
\* record for the column names.
NoHeaderRow(file) ==
    file.exists /\ file.order # <<>> /\ file.order[1] \notin Range(AirnowHeader)

\* The columns of the frame clean_airnow returns for the given columns.
AirnowColumnsOf(cols) ==
    (cols \ {"DateObserved", "HourObserved"}) \cup {"datetime_utc"}

\* C28: AirNow header reconstruction loses no observation.  When the raw
\* file has no header row, so that its first record was read as the column
\* names, clean_airnow assigns the fixed header and every record of the raw
\* file, the one in the header position included, is a data row of the
\* output before deduplication (the first record of a file is the first of
\* its key, so it is in the output after deduplication too); when the file
\* has a proper header, the columns are left as read.
C28_HeaderRecordKept ==
    (script = "airnow" /\ Saved("airnow")) =>
        IF NoHeaderRow(airnowRaw)
        THEN /\ \A k \in DOMAIN Cleaned("airnow") :
                   DOMAIN Cleaned("airnow")[k]
                      = AirnowColumnsOf(Range(AirnowHeader))
             /\ \E k \in DOMAIN Cleaned("airnow") :
                   Cleaned("airnow")[k].AQI = AirnowAqi(1)
        ELSE \A k \in DOMAIN Cleaned("airnow") :
                 DOMAIN Cleaned("airnow")[k]
                    = AirnowColumnsOf(Range(airnowRaw.order))

\* What clean_airnow does: the columns are renamed and the record in the
\* header position is not among the rows it returns.
HeaderRecordLost ==
    (script = "airnow" /\ Saved("airnow")) =>
        /\ Len(Cleaned("airnow")) <= Len(airnowRaw.rows)
        /\ \A k \in DOMAIN Cleaned("airnow") :
              /\ DOMAIN Cleaned("airnow")[k]
                    = AirnowColumnsOf(IF NoHeaderRow(airnowRaw)
                                      THEN Range(AirnowHeader)
                                      ELSE Range(airnowRaw.order))
              /\ NoHeaderRow(airnowRaw) =>
                    Cleaned("airnow")[k].AQI # AirnowAqi(1)

====
